---- MODULE Spec2Model ----
(***************************************************************************)
(* Model of the matching and scoring engine of neural_document_aligner.py  *)
(* (get_faiss, get_lev, get_distance, filter, docalign,                    *)
(* union_and_intersection and the result assembly of main).                *)
(*                                                                         *)
(* Python lists are TLA+ sequences; a Python index i is the position i+1   *)
(* of the sequence (PyGet).  Scores are fixed-point numbers, One = 1.0.    *)
(***************************************************************************)
EXTENDS Integers, Sequences, FiniteSets, TLC

VARIABLES
    pc,                 \* position of main: which call or loop step comes next
    strategy,           \* docalign_strategy: "faiss", "lev", "just-merge" ("filter": filter alone)
    src_docs, trg_docs, \* document identifiers of the two sides, in declaration order
    src_vecs, trg_vecs, \* document-level vectors given to get_faiss
    take_knn,           \* faiss_take_knn
    faiss_reverse_direction,
    threshold,          \* args.threshold, None when not configured
    results_strategy,   \* args.results_strategy: 0 union, 1 intersection
    src_nolines, trg_nolines, \* len() of each document's sentence-embedding sequence
    sim,                \* the score the scoring function gives each pair: sim[s + 1][t + 1]
    apply_heuristics,
    noprocesses,
    noworkers,
    src_idx, trg_idx,   \* get_lev / get_distance: position in the cross product
    processes_args,     \* the batch being assembled or in flight: return_value of each task
    completed,          \* the tasks of the batch that have ended, in completion order
    dispatched,         \* the batches handed to pool.starmap so far, in order
    inflight,           \* the flat indexes of the tasks handed to the pool that have not ended
    levenshtein_nfactor, \* get_lev: the normalization factor, None before it is computed
    lev_calls,          \* the edit-distance calls made so far: <<src index, trg index, nfactor>>
    results,            \* the list built and returned by the scoring strategy
    pool,               \* get_faiss: the sorted triples [src index, trg index, score]
    aligned,            \* docalign: result in best-match mode, the 'src' and 'trg' maps
    scores,             \* docalign: scores, keyed by hash(src) + hash(trg)
    union_and_int,      \* union_and_intersection: the 'union' and 'intersection' sets
    results_variable,   \* main: the set of pairs to print
    output,             \* main: output_listtmp after the final sort
    skipped,            \* filter: its return value
    src_lines, trg_lines, \* the sentences of each document, in reading order
    weights_strategy,   \* 0 none, 1 sentence length, 2 idf
    max_loaded_sent_embs_at_once,
    end_idx,            \* main: end of the last batch of embeddings loaded
    src_weights, trg_weights, \* the weights applied to each document's sentence embeddings
    similarities,       \* mix-faiss-lev-full: the sentence similarity matrix of a document pair
    source_blank, target_blank, \* whether each line of source_lines / target_lines is blank
    avg_sum_max,        \* the score of the pair, the fraction <<sum_max, sentence_count_analize>>
    isBackwardFlag,     \* the rows of similarities are the sentences of the target document
    save_sentences,
    sentences_similarity_threshold,
    goodSentenceindex,  \* the sentence alignments kept for the pair
    maxtmp,             \* the windowed maximum of each row that reached it: <<row, value>>
    embedding,          \* merge_embedding: the sentence vectors of a document
    merged,             \* merge_embedding: the document vector, None before the merge
    v1, v2,             \* cosine_similarity: its two vectors
    cosine,             \* the value cosine_similarity returned, None before the call
    data_src,           \* process_input_file: the lines of the input file, split at the tabs
    paths_to_docs_are_base64_values,
    max_noentries,
    src_urls, trg_urls, \* process_input_file: the URL lists it returns
    embeddings,         \* preprocess: the list of embeddings, changed in place
    loaded_embeddings,  \* the embeddings as they were loaded
    paths_lines,        \* weight_embeddings: paths, as the lines of each document
    mask,               \* apply_mask: the mask, its values counted in machine epsilons
    check_zeros_mask

confVars == <<strategy, src_docs, trg_docs, src_vecs, trg_vecs, take_knn,
              faiss_reverse_direction, threshold, results_strategy,
              src_nolines, trg_nolines, sim, apply_heuristics, noprocesses, noworkers>>

loopVars == <<src_idx, trg_idx, processes_args, completed>>

poolVars == <<dispatched, inflight>>

levVars == <<levenshtein_nfactor, lev_calls>>

weightVars == <<src_lines, trg_lines, weights_strategy, max_loaded_sent_embs_at_once, end_idx,
                src_weights, trg_weights>>

(* The variables of the functions modelled on their own *)
windowVars == <<similarities, source_blank, target_blank, avg_sum_max, isBackwardFlag,
                save_sentences, sentences_similarity_threshold, goodSentenceindex, maxtmp>>

mergeVars == <<embedding, merged>>

cosineVars == <<v1, v2, cosine>>

inputVars == <<data_src, paths_to_docs_are_base64_values, max_noentries, src_urls, trg_urls>>

preprocessVars == <<embeddings, loaded_embeddings, paths_lines, mask, check_zeros_mask>>

unitVars == <<weightVars, windowVars, mergeVars, cosineVars, inputVars, preprocessVars>>

vars == <<pc, confVars, loopVars, poolVars, levVars, results, pool, aligned, scores, union_and_int,
          results_variable, output, skipped, unitVars>>

----------------------------------------------------------------------------
(* Bounds of the model *)

MaxDocs == 2            \* documents per side
MaxKnn == 3             \* largest neighbourhood size tried
MaxPairs == 4           \* size of the source x target cross product of a run
MaxWorkers == 2         \* largest noworkers tried
MaxLines == 13          \* line counts given to filter alone: 0..MaxLines and LongDoc
LongDoc == 100
MaxSentences == 3       \* lines of a document given to get_weights_sl
MaxRows == 3            \* rows of the similarity matrix of the windowed score
MaxVectors == 6         \* sentence vectors of a document given to max_split3_embedding
MaxRecords == 3         \* lines of the input file
MaxEmbeddings == 2      \* embeddings of a list given to weight_embeddings and apply_mask
MaskDim == 2            \* dimension of the embeddings given to apply_mask

(* Line counts of the documents of the pairwise scorer *)
LineCounts == {3, 10}

(* Fixed-point scale: the float 1.0 *)
One == 100

(* threshold=None *)
None == -1

(* The distance faiss reports for a filler neighbour (id -1): the lowest float *)
FillerD == -(One * One)

ThresholdValues == {None, 71}

(* result["similarity"] of the edit-distance collaborator, and 1.0 - cosine *)
Similarities == {50, 80, One}

(* Components of the document-level vectors; (0,0) is the zero vector *)
Vectors == {<<0, 0>>, <<1, 0>>, <<1, 1>>}

----------------------------------------------------------------------------
(* Python helpers *)

Max(a, b) == IF a >= b THEN a ELSE b
Min(a, b) == IF a <= b THEN a ELSE b

(* list[i] with Python's negative indexes; PyValid is "no IndexError" *)
PyValid(list, i) == -Len(list) <= i /\ i < Len(list)
PyGet(list, i) == IF i >= 0 THEN list[i + 1] ELSE list[Len(list) + i + 1]

(* hash() of an identifier: distinct identifiers have distinct hashes, and  *)
(* hash(a) + hash(b) = hash(c) + hash(d) only for the same two identifiers  *)
Hash(id) == 2 ^ id

(* The list left as it is *)
SortDescWrong(list, k) == list

(* list.sort(key=itemgetter(k), reverse=True): stable, descending by field k *)
RECURSIVE InsertDesc(_, _, _)
InsertDesc(sorted, r, k) ==
    IF sorted = <<>> THEN <<r>>
    ELSE IF Head(sorted)[k] >= r[k]
         THEN <<Head(sorted)>> \o InsertDesc(Tail(sorted), r, k)
         ELSE <<r>> \o sorted

RECURSIVE SortDesc(_, _)
SortDesc(list, k) ==
    IF list = <<>> THEN <<>>
    ELSE InsertDesc(SortDesc(SubSeq(list, 1, Len(list) - 1), k), list[Len(list)], k)

----------------------------------------------------------------------------
(* get_faiss *)

Dot(a, b) == a[1] * b[1] + a[2] * b[2]

ISqrt(n) == CHOOSE r \in 0..One : r * r <= n /\ (r + 1) * (r + 1) > n

(* Inner product of the two vectors after faiss.normalize_L2 (a zero vector *)
(* is left as it is), in fixed point                                        *)
NormalizedIP(a, b) ==
    LET d == Dot(a, b)
        n == Dot(a, a) * Dot(b, b)
    IN  IF n = 0 \/ d = 0 THEN 0
        ELSE IF d > 0 THEN ISqrt((d * d * One * One) \div n)
        ELSE -ISqrt((d * d * One * One) \div n)

(* D of one query q: its inner product with every indexed vector *)
Distances(indexed, q) == [i \in 1..Len(indexed) |-> NormalizedIP(indexed[i], q)]

(* All orders of the indexed vectors 0..n-1 by non-increasing inner product *)
(* with the query: equal inner products may come in any order               *)
Rankings(dist) ==
    LET n == Len(dist)
    IN  { p \in [1..n -> 0..(n - 1)] :
            /\ \A i, j \in 1..n : i /= j => p[i] /= p[j]
            /\ \A i \in 1..(n - 1) : dist[p[i] + 1] >= dist[p[i + 1] + 1] }

(* faiss_index.search for one query: k entries <<id, distance>>, best       *)
(* first, filled with id -1 when fewer than k vectors are indexed           *)
SearchRow(dist, k, p) ==
    [ c \in 1..k |-> IF c <= Len(dist) THEN <<p[c], dist[p[c] + 1]>> ELSE <<-1, FillerD>> ]

SearchRows(indexed, q, k) ==
    LET dist == Distances(indexed, q)
    IN  { SearchRow(dist, k, p) : p \in Rankings(dist) }

(* faiss_index.search(queries, k): every result the index may give, one    *)
(* row per query                                                           *)
RECURSIVE Search(_, _, _, _)
Search(indexed, queries, k, t) ==
    IF t > Len(queries) THEN {<<>>}
    ELSE { <<row>> \o rest : row \in SearchRows(indexed, queries[t], k),
                             rest \in Search(indexed, queries, k, t + 1) }

(* Lines 741-755: the triples of one query row idx, clipped *)
RECURSIVE RowTriples(_, _, _, _, _)
RowTriples(row, idx, idx2, sdocs, tdocs) ==
    IF idx2 > Len(row) THEN <<>>
    ELSE LET i == row[idx2][1]
             clipped == Max(Min(row[idx2][2], One), 0)
             rest == RowTriples(row, idx, idx2 + 1, sdocs, tdocs)
         IN  IF PyValid(tdocs, idx) /\ PyValid(sdocs, i)
             THEN <<<<i, idx, clipped>>>> \o rest
             ELSE rest

RECURSIVE AllTriples(_, _, _, _)
AllTriples(I, idx, sdocs, tdocs) ==
    IF idx >= Len(I) THEN <<>>
    ELSE RowTriples(I[idx + 1], idx, 1, sdocs, tdocs) \o AllTriples(I, idx + 1, sdocs, tdocs)

(* A walk that never records the documents it has accepted *)
RECURSIVE GreedyWalkNoMarks(_, _, _, _, _, _, _)
GreedyWalkNoMarks(rs, already_src, already_trg, sdocs, tdocs, thr, rev) ==
    IF rs = <<>> THEN <<>>
    ELSE LET r == Head(rs)
         IN  IF r[2] \in already_trg \/ r[1] \in already_src \/ (thr /= None /\ r[3] < thr)
             THEN GreedyWalkNoMarks(Tail(rs), already_src, already_trg, sdocs, tdocs, thr, rev)
             ELSE <<IF rev THEN <<PyGet(tdocs, r[2]), PyGet(sdocs, r[1]), r[3]>>
                           ELSE <<PyGet(sdocs, r[1]), PyGet(tdocs, r[2]), r[3]>>>>
                  \o GreedyWalkNoMarks(Tail(rs), already_src, already_trg, sdocs, tdocs, thr, rev)

(* A walk that stops at the first candidate it does not accept *)
RECURSIVE GreedyWalkBreak(_, _, _, _, _, _, _)
GreedyWalkBreak(rs, already_src, already_trg, sdocs, tdocs, thr, rev) ==
    IF rs = <<>> THEN <<>>
    ELSE LET r == Head(rs)
         IN  IF r[2] \in already_trg \/ r[1] \in already_src \/ (thr /= None /\ r[3] < thr)
             THEN <<>>
             ELSE <<IF rev THEN <<PyGet(tdocs, r[2]), PyGet(sdocs, r[1]), r[3]>>
                           ELSE <<PyGet(sdocs, r[1]), PyGet(tdocs, r[2]), r[3]>>>>
                  \o GreedyWalkBreak(Tail(rs), already_src \cup {r[1]}, already_trg \cup {r[2]},
                                     sdocs, tdocs, thr, rev)

(* Lines 759-780: the greedy walk over the sorted pool *)
RECURSIVE GreedyWalk(_, _, _, _, _, _, _)
GreedyWalk(rs, already_src, already_trg, sdocs, tdocs, thr, rev) ==
    IF rs = <<>> THEN <<>>
    ELSE LET r == Head(rs)
         IN  IF r[2] \in already_trg \/ r[1] \in already_src
             THEN GreedyWalk(Tail(rs), already_src, already_trg, sdocs, tdocs, thr, rev)
             ELSE IF thr /= None /\ r[3] < thr
             THEN GreedyWalk(Tail(rs), already_src, already_trg, sdocs, tdocs, thr, rev)
             ELSE <<IF rev THEN <<PyGet(tdocs, r[2]), PyGet(sdocs, r[1]), r[3]>>
                           ELSE <<PyGet(sdocs, r[1]), PyGet(tdocs, r[2]), r[3]>>>>
                  \o GreedyWalk(Tail(rs), already_src \cup {r[1]}, already_trg \cup {r[2]},
                                sdocs, tdocs, thr, rev)

(* main, lines 1293-1299: the arguments of get_faiss *)
faiss_src_docs == IF faiss_reverse_direction THEN trg_docs ELSE src_docs
faiss_trg_docs == IF faiss_reverse_direction THEN src_docs ELSE trg_docs
faiss_src_embeddings == IF faiss_reverse_direction THEN trg_vecs ELSE src_vecs
faiss_trg_embeddings == IF faiss_reverse_direction THEN src_vecs ELSE trg_vecs

get_faiss ==
    /\ pc = "get_faiss"
    /\ \E I \in Search(faiss_src_embeddings, faiss_trg_embeddings, take_knn, 1) :
         LET sorted == SortDesc(AllTriples(I, 0, faiss_src_docs, faiss_trg_docs), 3)
         IN  /\ pool' = sorted
             /\ results' = GreedyWalk(sorted, {}, {}, faiss_src_docs, faiss_trg_docs,
                                      threshold, faiss_reverse_direction)
    /\ pc' = "docalign"
    /\ UNCHANGED <<confVars, loopVars, aligned, scores, union_and_int, results_variable,
                   output, skipped>>
    /\ UNCHANGED levVars
    /\ UNCHANGED unitVars
    /\ UNCHANGED poolVars

----------------------------------------------------------------------------
(* filter: the heuristic pre-filter, TRUE when the pair is skipped *)

(* percentage=0.3, as the fraction PercentageNum / PercentageDen *)
PercentageNum == 3
PercentageDen == 10

(* From 10 lines on, the shares of the combined line count are compared *)
MinLinesForShares == 10

(* The comparison with > in place of >= *)
SharesApartStrict(nolines_src, nolines_trg) ==
    (Max(nolines_src, nolines_trg) - Min(nolines_src, nolines_trg)) * PercentageDen
        > PercentageNum * (nolines_src + nolines_trg)

(* max(share_src, share_trg) - min(share_src, share_trg) >= percentage, with *)
(* share = nolines / (nolines_src + nolines_trg): both sides multiplied by   *)
(* (nolines_src + nolines_trg) * PercentageDen                              *)
SharesApart(nolines_src, nolines_trg) ==
    (Max(nolines_src, nolines_trg) - Min(nolines_src, nolines_trg)) * PercentageDen
        >= PercentageNum * (nolines_src + nolines_trg)

filter(nolines_src, nolines_trg) ==
    IF nolines_src = 0 \/ nolines_trg = 0 THEN TRUE
    ELSE IF nolines_src >= MinLinesForShares \/ nolines_trg >= MinLinesForShares
         THEN SharesApart(nolines_src, nolines_trg)
         ELSE FALSE

apply_filter ==
    /\ pc = "filter"
    /\ skipped' = filter(src_nolines[1], trg_nolines[1])
    /\ pc' = "filtered"
    /\ UNCHANGED <<confVars, loopVars, results, pool, aligned, scores, union_and_int,
                   results_variable, output>>
    /\ UNCHANGED levVars
    /\ UNCHANGED unitVars
    /\ UNCHANGED poolVars

----------------------------------------------------------------------------
(* get_lev and get_distance *)

(* The filter is applied to the pair (s, t) of Python indexes *)
Filtered(s, t) == apply_heuristics /\ filter(src_nolines[s + 1], trg_nolines[t + 1])

(* Lines 401-405: the running maximum of len(embedding) over a list of       *)
(* embeddings, each given by its length                                     *)
RECURSIVE RunningMax(_, _)
RunningMax(lens, acc) ==
    IF lens = <<>> THEN acc ELSE RunningMax(Tail(lens), Max(acc, Head(lens)))

(* The factor of the source side alone *)
levenshtein_norm_factor_src(src_lens, trg_lens) == RunningMax(src_lens, 0)

(* Lines 398-407 *)
levenshtein_norm_factor(src_lens, trg_lens) ==
    RunningMax(trg_lens, RunningMax(src_lens, 0))

(* Lines 784-794: get_lev computes the factor, then takes the path with or   *)
(* without the worker pool                                                  *)
get_lev_nfactor ==
    /\ pc = "get_lev"
    /\ levenshtein_nfactor' = levenshtein_norm_factor(src_nolines, trg_nolines)
    /\ pc' = IF noprocesses > 0 THEN "assemble" ELSE "sequential"
    /\ UNCHANGED <<confVars, loopVars, lev_calls, results, pool, aligned, scores,
                   union_and_int, results_variable, output, skipped>>
    /\ UNCHANGED unitVars
    /\ UNCHANGED poolVars

(* The inner loop without the filter *)
RECURSIVE FillRowNoFilter(_, _, _)
FillRowNoFilter(si, ti, args) ==
    IF ti < Len(trg_docs) /\ Len(args) < noworkers
    THEN FillRowNoFilter(si, ti + 1, Append(args, <<si, ti, si * Len(trg_docs) + ti>>))
    ELSE [trg_idx |-> ti, args |-> args]

(* Lines 799-804: the inner loop over the targets of source row si *)
RECURSIVE FillRow(_, _, _)
FillRow(si, ti, args) ==
    IF ti < Len(trg_docs) /\ Len(args) < noworkers
    THEN FillRow(si, ti + 1,
                 IF ~Filtered(si, ti)
                 THEN Append(args, <<si, ti, si * Len(trg_docs) + ti>>)
                 ELSE args)
    ELSE [trg_idx |-> ti, args |-> args]

(* The loop over the source rows left after one row *)
AssembleOneRow(si, ti, args) ==
    IF si < Len(src_docs)
    THEN LET row == FillRow(si, ti, args)
         IN  IF Len(row.args) >= noworkers
             THEN [src_idx |-> si, trg_idx |-> row.trg_idx, args |-> row.args]
             ELSE [src_idx |-> si + 1, trg_idx |-> 0, args |-> row.args]
    ELSE [src_idx |-> si, trg_idx |-> ti, args |-> args]

(* Lines 798-810: the loop over the source rows, left when the batch is full *)
RECURSIVE Assemble(_, _, _)
Assemble(si, ti, args) ==
    IF si < Len(src_docs)
    THEN LET row == FillRow(si, ti, args)
         IN  IF Len(row.args) >= noworkers
             THEN [src_idx |-> si, trg_idx |-> row.trg_idx, args |-> row.args]
             ELSE Assemble(si + 1, 0, row.args)
    ELSE [src_idx |-> si, trg_idx |-> ti, args |-> args]

(* Lines 796-817: a batch is assembled and handed to pool.starmap, or the   *)
(* loop ends and the function returns its list                             *)
dispatch_batch ==
    /\ pc = "assemble"
    /\ LET a == Assemble(src_idx, trg_idx, processes_args)
       IN  /\ src_idx' = a.src_idx
           /\ trg_idx' = a.trg_idx
           /\ processes_args' = a.args
           /\ pc' = IF Len(a.args) = 0 THEN "returned" ELSE "running"
           /\ dispatched' = IF Len(a.args) = 0 THEN dispatched ELSE Append(dispatched, a.args)
           /\ inflight' = inflight \cup {a.args[i][3] : i \in 1..Len(a.args)}
    /\ completed' = <<>>
    /\ UNCHANGED <<confVars, results, pool, aligned, scores, union_and_int,
                   results_variable, output, skipped>>
    /\ UNCHANGED levVars
    /\ UNCHANGED unitVars

Pending ==
    IF pc = "running"
    THEN (1..Len(processes_args)) \ {completed[i].pos : i \in 1..Len(completed)}
    ELSE {}


(* worker_lev: returns (lev_result, return_value), or the scoring raises.  *)
(* worker_distance: reads avg_embedding_src_vector, a name it never        *)
(* defines, so every call raises NameError.                                *)
WorkerOutcomes == IF strategy = "lev" THEN {"returned", "raised"} ELSE {"raised"}

worker_done ==
    /\ pc = "running"
    /\ \E i \in Pending, o \in WorkerOutcomes :
         /\ completed' = Append(completed,
                        [pos |-> i, outcome |-> o,
                         value |-> <<sim[processes_args[i][1] + 1][processes_args[i][2] + 1],
                                     processes_args[i]>>])
         /\ inflight' = inflight \ {processes_args[i][3]}
         /\ lev_calls' = IF strategy = "lev"
                          THEN lev_calls \cup {<<processes_args[i][1], processes_args[i][2],
                                                 levenshtein_nfactor>>}
                          ELSE lev_calls
    /\ UNCHANGED <<pc, confVars, src_idx, trg_idx, processes_args, dispatched,
                   levenshtein_nfactor,
                   results, pool, aligned, scores, union_and_int, results_variable, output,
                   skipped>>
    /\ UNCHANGED unitVars

(* pool.starmap: the results of the tasks that have ended, in the order of  *)
(* the arguments                                                           *)
RECURSIVE ResultsFrom(_)
ResultsFrom(i) ==
    IF i > Len(processes_args) THEN <<>>
    ELSE LET done == {completed[j] : j \in 1..Len(completed)}
         IN  IF \E c \in done : c.pos = i
             THEN <<(CHOOSE c \in done : c.pos = i).value>> \o ResultsFrom(i + 1)
             ELSE ResultsFrom(i + 1)

StarmapResults == ResultsFrom(1)

(* A sort by score instead of by flat index *)
RECURSIVE InsertByScore(_, _)
InsertByScore(sorted, r) ==
    IF sorted = <<>> THEN <<r>>
    ELSE IF Head(sorted)[1] <= r[1]
         THEN <<Head(sorted)>> \o InsertByScore(Tail(sorted), r)
         ELSE <<r>> \o sorted

RECURSIVE SortByScore(_)
SortByScore(list) ==
    IF list = <<>> THEN <<>>
    ELSE InsertByScore(SortByScore(SubSeq(list, 1, Len(list) - 1)), list[Len(list)])

(* sorted(results, key=lambda x: x[-1][-1]): stable, ascending by flat index *)
RECURSIVE InsertByIndex(_, _)
InsertByIndex(sorted, r) ==
    IF sorted = <<>> THEN <<r>>
    ELSE IF Head(sorted)[2][3] <= r[2][3]
         THEN <<Head(sorted)>> \o InsertByIndex(Tail(sorted), r)
         ELSE <<r>> \o sorted

RECURSIVE SortByIndex(_)
SortByIndex(list) ==
    IF list = <<>> THEN <<>>
    ELSE InsertByIndex(SortByIndex(SubSeq(list, 1, Len(list) - 1)), list[Len(list)])

(* The fold without the threshold test *)
RECURSIVE FoldBatchNoThreshold(_, _)
FoldBatchNoThreshold(rs, acc) ==
    IF rs = <<>> THEN acc
    ELSE FoldBatchNoThreshold(Tail(rs),
            Append(acc, <<PyGet(src_docs, Head(rs)[2][1]), PyGet(trg_docs, Head(rs)[2][2]),
                          Head(rs)[1]>>))

(* Lines 826-838: the results of a batch are folded into the result list.   *)
(* r[1], the return_value, is a list and never None.                        *)
RECURSIVE FoldBatch(_, _)
FoldBatch(rs, acc) ==
    IF rs = <<>> THEN acc
    ELSE LET r == Head(rs)
             src_doc == PyGet(src_docs, r[2][1])
             trg_doc == PyGet(trg_docs, r[2][2])
         IN  IF r[1] = None
             THEN FoldBatch(Tail(rs), acc)
             ELSE IF threshold /= None /\ r[1] < threshold
             THEN FoldBatch(Tail(rs), acc)
             ELSE FoldBatch(Tail(rs), Append(acc, <<src_doc, trg_doc, r[1]>>))

(* pool.starmap re-raises the exception of a task that raised *)
BatchRaisedIgnored(done) == FALSE

BatchRaised(done) == \E i \in 1..Len(done) : done[i].outcome = "raised"

(* pool.starmap returns as soon as one task has ended *)
AnyEnded(args, done) == Len(done) >= 1

(* Line 817: pool.starmap blocks until every task of the batch has ended *)
AllEnded(args, done) ==
    \A i \in 1..Len(args) : \E j \in 1..Len(done) : done[j].pos = i

(* Lines 817-840: pool.starmap returns once every task of the batch has    *)
(* ended; it raises when a task raised                                     *)
collect_batch ==
    /\ pc = "running"
    /\ AllEnded(processes_args, completed)
    /\ IF BatchRaised(completed)
       THEN /\ pc' = "error"
            /\ UNCHANGED <<processes_args, results>>
       ELSE /\ pc' = "assemble"
            /\ results' = FoldBatch(SortByIndex(StarmapResults), results)
            /\ processes_args' = <<>>
    /\ UNCHANGED <<confVars, src_idx, trg_idx, completed, pool, aligned, scores, union_and_int,
                   results_variable, output, skipped>>
    /\ UNCHANGED levVars
    /\ UNCHANGED unitVars
    /\ UNCHANGED poolVars

(* Lines 846-860 and 923-933: the loops of the path without multiprocessing *)
RECURSIVE SequentialScores(_, _, _)
SequentialScores(s, t, acc) ==
    IF s >= Len(src_docs) THEN acc
    ELSE IF t >= Len(trg_docs) THEN SequentialScores(s + 1, 0, acc)
    ELSE IF Filtered(s, t) THEN SequentialScores(s, t + 1, acc)
    ELSE IF threshold /= None /\ sim[s + 1][t + 1] < threshold
         THEN SequentialScores(s, t + 1, acc)
    ELSE SequentialScores(s, t + 1,
            Append(acc, <<PyGet(src_docs, s), PyGet(trg_docs, t), sim[s + 1][t + 1]>>))

(* Line 851: the edit-distance calls of the loops, one per pair not filtered *)
SequentialCalls ==
    {<<s, t, levenshtein_nfactor>> : <<s, t>> \in
        {q \in (0..(Len(src_docs) - 1)) \X (0..(Len(trg_docs) - 1)) : ~Filtered(q[1], q[2])}}

score_sequential ==
    /\ pc = "sequential"
    /\ results' = SequentialScores(0, 0, <<>>)
    /\ lev_calls' = IF strategy = "lev" THEN SequentialCalls ELSE lev_calls
    /\ pc' = "returned"
    /\ UNCHANGED <<confVars, loopVars, levenshtein_nfactor, pool, aligned, scores,
                   union_and_int, results_variable, output, skipped>>
    /\ UNCHANGED unitVars
    /\ UNCHANGED poolVars

----------------------------------------------------------------------------
(* docalign, union_and_intersection and the result lines of main *)

EmptyDict == [k \in {} |-> 0]

DictSet(d, k, v) == [x \in (DOMAIN d) \cup {k} |-> IF x = k THEN v ELSE d[x]]

(* Lines 433-446: scores after the candidates rs have been folded into sc *)
RECURSIVE FoldScores(_, _)
FoldScores(rs, sc) ==
    IF rs = <<>> THEN sc
    ELSE FoldScores(Tail(rs), DictSet(sc, Hash(Head(rs)[1]) + Hash(Head(rs)[2]), Head(rs)[3]))

(* A candidate of equal score taken as the new best *)
RECURSIVE FoldBestLast(_, _)
FoldBestLast(rs, res) ==
    IF rs = <<>> THEN res
    ELSE LET src_doc == Head(rs)[1]
             trg_doc == Head(rs)[2]
             score == Head(rs)[3]
             s1 == IF src_doc \notin DOMAIN res.src \/ res.src[src_doc][2] <= score
                   THEN DictSet(res.src, src_doc, <<trg_doc, score>>)
                   ELSE res.src
             t1 == IF trg_doc \notin DOMAIN res.trg \/ res.trg[trg_doc][2] <= score
                   THEN DictSet(res.trg, trg_doc, <<src_doc, score>>)
                   ELSE res.trg
         IN  FoldBestLast(Tail(rs), [src |-> s1, trg |-> t1])

(* Lines 454-480: the best target of each source and the best source of    *)
(* each target, as [doc, score]                                            *)
RECURSIVE FoldBest(_, _)
FoldBest(rs, res) ==
    IF rs = <<>> THEN res
    ELSE LET src_doc == Head(rs)[1]
             trg_doc == Head(rs)[2]
             score == Head(rs)[3]
             s1 == IF src_doc \notin DOMAIN res.src \/ res.src[src_doc][2] < score
                   THEN DictSet(res.src, src_doc, <<trg_doc, score>>)
                   ELSE res.src
             t1 == IF trg_doc \notin DOMAIN res.trg \/ res.trg[trg_doc][2] < score
                   THEN DictSet(res.trg, trg_doc, <<src_doc, score>>)
                   ELSE res.trg
         IN  FoldBest(Tail(rs), [src |-> s1, trg |-> t1])

EmptyResult == [src |-> EmptyDict, trg |-> EmptyDict]

(* docalign(..., only_docalign=True), called after get_faiss *)
docalign_only ==
    /\ pc = "docalign"
    /\ strategy = "faiss"
    /\ scores' = FoldScores(results, EmptyDict)
    /\ results_variable' = IF results_strategy = 0
                           THEN {<<results[i][1], results[i][2]>> : i \in 1..Len(results)}
                           ELSE results_variable
    /\ pc' = IF results_strategy = 0 THEN "print" ELSE "error"
    /\ UNCHANGED <<confVars, loopVars, results, pool, aligned, union_and_int, output, skipped>>
    /\ UNCHANGED levVars
    /\ UNCHANGED unitVars
    /\ UNCHANGED poolVars

(* docalign(...) in best-match mode, called after get_lev and get_distance *)
docalign_best ==
    /\ pc = "returned"
    /\ strategy \in {"lev", "just-merge"}
    /\ IF Len(results) = 0
       THEN aligned' = EmptyResult /\ scores' = EmptyDict
       ELSE aligned' = FoldBest(results, EmptyResult) /\ scores' = FoldScores(results, EmptyDict)
    /\ pc' = "union"
    /\ UNCHANGED <<confVars, loopVars, results, pool, union_and_int, results_variable,
                   output, skipped>>
    /\ UNCHANGED levVars
    /\ UNCHANGED unitVars
    /\ UNCHANGED poolVars

(* Lines 489-498: the step of the first loop for the source src_url *)
SrcStepNoCheck(au, acc, src_url) ==
    LET trg_url == au.src[src_url][1]
    IN  [union |-> acc.union \cup {<<src_url, trg_url>>},
         intersection |-> acc.intersection \cup {<<src_url, trg_url>>}]

SrcStepSwapped(au, acc, src_url) ==
    LET trg_url == au.src[src_url][1]
        best_trg_url == au.trg[trg_url][1]
    IN  [union |-> acc.union \cup {<<src_url, trg_url>>},
         intersection |-> IF src_url = best_trg_url
                          THEN acc.intersection \cup {<<trg_url, src_url>>}
                          ELSE acc.intersection]

SrcStep(au, acc, src_url) ==
    LET trg_url == au.src[src_url][1]
        best_trg_url == au.trg[trg_url][1]
    IN  [union |-> acc.union \cup {<<src_url, trg_url>>},
         intersection |-> IF src_url = best_trg_url
                          THEN acc.intersection \cup {<<src_url, trg_url>>}
                          ELSE acc.intersection]

(* Lines 501-505: the step of the second loop for the target trg_url *)
TrgStep(au, acc, trg_url) ==
    [union |-> acc.union \cup {<<au.trg[trg_url][1], trg_url>>},
     intersection |-> acc.intersection]

RECURSIVE SrcLoop(_, _, _)
SrcLoop(au, acc, keys) ==
    IF keys = {} THEN acc
    ELSE LET k == CHOOSE x \in keys : TRUE
         IN  SrcLoop(au, SrcStep(au, acc, k), keys \ {k})

RECURSIVE TrgLoop(_, _, _)
TrgLoop(au, acc, keys) ==
    IF keys = {} THEN acc
    ELSE LET k == CHOOSE x \in keys : TRUE
         IN  TrgLoop(au, TrgStep(au, acc, k), keys \ {k})

(* union_and_intersection, and main's choice by results_strategy (lines    *)
(* 1316-1326 and 1333-1343)                                                *)
union_and_intersection ==
    /\ pc = "union"
    /\ LET afterSrc == SrcLoop(aligned, [union |-> {}, intersection |-> {}], DOMAIN aligned.src)
           both == TrgLoop(aligned, afterSrc, DOMAIN aligned.trg)
       IN  /\ union_and_int' = both
           /\ results_variable' = IF results_strategy = 0 THEN both.union ELSE both.intersection
    /\ pc' = "print"
    /\ UNCHANGED <<confVars, loopVars, results, pool, aligned, scores, output, skipped>>
    /\ UNCHANGED levVars
    /\ UNCHANGED unitVars
    /\ UNCHANGED poolVars

(* Lines 1556-1582: one line per pair of results_variable, taken in the     *)
(* iteration order of the set, then sorted by score, highest first         *)
Unknown == -2

ScoreOf(sc, r) ==
    IF Hash(r[1]) + Hash(r[2]) \in DOMAIN sc THEN sc[Hash(r[1]) + Hash(r[2])] ELSE Unknown

SetOrders(S) ==
    { p \in [1..Cardinality(S) -> S] : \A i, j \in 1..Cardinality(S) : i /= j => p[i] /= p[j] }

print_results ==
    /\ pc = "print"
    /\ \E order \in SetOrders(results_variable) :
         output' = SortDesc([i \in 1..Len(order) |->
                               <<order[i][1], order[i][2], ScoreOf(scores, order[i])>>], 3)
    /\ pc' = "done"
    /\ UNCHANGED <<confVars, loopVars, results, pool, aligned, scores, union_and_int,
                   results_variable, skipped>>
    /\ UNCHANGED levVars
    /\ UNCHANGED unitVars
    /\ UNCHANGED poolVars

----------------------------------------------------------------------------
(* Sentence weights: get_weights_sl, get_weights_idf_all and the loading     *)
(* loop of main.  A sentence is a number, 0 the empty line; a weight is the *)
(* fraction <<numerator, denominator>>                                      *)

(* cnt=len: the sentences 1, 2 and 3 are different texts of the same length *)
cnt(l) == IF l = 0 THEN 0 ELSE IF l <= 3 THEN 1 ELSE 2

(* Lines 94-102: counts[h], the number of lines of the document equal to h  *)
Counts(doc, h) == Cardinality({i \in 1..Len(doc) : doc[i] = h})

(* Lines 105-106: the sum of counts[h] * lengths[h] over the keys of counts *)
RECURSIVE SumOverKeys(_, _)
SumOverKeys(doc, keys) ==
    IF keys = {} THEN 0
    ELSE LET h == CHOOSE x \in keys : TRUE
         IN  Counts(doc, h) * cnt(h) + SumOverKeys(doc, keys \ {h})

lengths_sum(doc) == SumOverKeys(doc, {doc[i] : i \in 1..Len(doc)})

(* The weight without the number of occurrences *)
get_weights_sl_once(doc) ==
    [i \in 1..Len(doc) |->
        IF lengths_sum(doc) = 0 THEN <<1, 1>> ELSE <<cnt(doc[i]), lengths_sum(doc)>>]

(* Lines 81-125 *)
get_weights_sl(doc) ==
    [i \in 1..Len(doc) |->
        IF lengths_sum(doc) = 0
        THEN <<1, 1>>
        ELSE <<Counts(doc, doc[i]) * cnt(doc[i]), lengths_sum(doc)>>]

(* Lines 127-135 *)
get_weights_sl_all(paths) == [p \in 1..Len(paths) |-> get_weights_sl(paths[p])]

(* Python's list[start:end]: a negative bound counts from the end, and both *)
(* bounds are clamped to the list                                          *)
SliceBound(i, n) == IF i < 0 THEN Max(i + n, 0) ELSE Min(i, n)

Slice(list, start, end) ==
    SubSeq(list, SliceBound(start, Len(list)) + 1, SliceBound(end, Len(list)))

(* Lines 188-206: idx[h], the number of documents of paths that hold the     *)
(* sentence h at least once                                                 *)
DocFrequency(paths, h) ==
    Cardinality({p \in 1..Len(paths) : \E i \in 1..Len(paths[p]) : paths[p][i] = h})

(* Lines 181-225: the weight 1 + ln(nodocs / idx[h]) of every line of every  *)
(* document, kept as the fraction <<nodocs, idx[h]>>                         *)
get_weights_idf_all(paths) ==
    [p \in 1..Len(paths) |->
        [i \in 1..Len(paths[p]) |-> <<Len(paths), DocFrequency(paths, paths[p][i])>>]]

max_length_docs == Max(Len(src_lines), Len(trg_lines))

(* Lines 1197-1249: one batch of documents is loaded and preprocess weights  *)
(* the batch with the weights of src_docs[start_idx:end_idx] +               *)
(* trg_docs[start_idx:end_idx], chosen by weight_embeddings (lines 270-279)  *)
load_batch ==
    /\ pc = "load"
    /\ end_idx < max_length_docs
    /\ LET start_idx == end_idx
           end == Min(start_idx + max_loaded_sent_embs_at_once, max_length_docs)
           src_batch == Slice(src_lines, start_idx, end)
           trg_batch == Slice(trg_lines, start_idx, end)
           paths == src_batch \o trg_batch
           weights == IF weights_strategy = 1 THEN get_weights_sl_all(paths)
                      ELSE get_weights_idf_all(paths)
       IN  /\ end_idx' = end
           /\ src_weights' = src_weights \o SubSeq(weights, 1, Len(src_batch))
           /\ trg_weights' = trg_weights \o SubSeq(weights, Len(src_batch) + 1, Len(weights))
    /\ UNCHANGED <<pc, confVars, loopVars, levVars, results, pool, aligned, scores,
                   union_and_int, results_variable, output, skipped>>
    /\ UNCHANGED <<src_lines, trg_lines, weights_strategy, max_loaded_sent_embs_at_once,
                   windowVars, mergeVars, cosineVars, inputVars>>
    /\ UNCHANGED poolVars
    /\ UNCHANGED preprocessVars

(* Line 1197: the loop ends once every document has been loaded *)
load_done ==
    /\ pc = "load"
    /\ end_idx >= max_length_docs
    /\ pc' = "loaded"
    /\ UNCHANGED <<confVars, loopVars, levVars, results, pool, aligned, scores,
                   union_and_int, results_variable, output, skipped, unitVars>>
    /\ UNCHANGED poolVars

----------------------------------------------------------------------------
(* The windowed score of a document pair (mix-faiss-lev-full, lines         *)
(* 1424-1496; get_max_avg, lines 984-1010, is the same loop without the     *)
(* blank-line tests).  similarities has one row per sentence of the longer  *)
(* document.                                                                *)

WindowMin == 50
WindowMax == 300
WindowMaxAvg == 150

(* Lines 1424-1428 *)
closeSentence(n, m) ==
    LET d == IF n >= m THEN n - m ELSE m - n
    IN  IF d > WindowMax THEN WindowMax ELSE IF d < WindowMin THEN WindowMin ELSE d

(* Lines 984-988: get_max_avg *)
closeSentenceAvg(n, m) ==
    LET d == IF n >= m THEN n - m ELSE m - n
    IN  IF d > WindowMaxAvg THEN WindowMaxAvg ELSE IF d < WindowMin THEN WindowMin ELSE d

(* The half-width of the window of the strategy that runs *)
HalfWidth(n, m) ==
    IF strategy = "avg_max" THEN closeSentenceAvg(n, m) ELSE closeSentence(n, m)

(* Lines 1453-1464 and 994-1003: left_bound and right_bound of row i *)
Bounds(len, i, w) ==
    LET lb0 == IF i - w > 0 THEN i - w ELSE i
        left_bound == IF lb0 > len - w THEN len - w ELSE lb0
        right_bound == IF i + w > len - 1 THEN len ELSE i + w
    IN  <<left_bound, right_bound>>

(* The window of row i, a slice of the row *)
Window(row, i, w) == Slice(row, Bounds(Len(row), i, w)[1], Bounds(Len(row), i, w)[2])

(* max() of a list that is not empty *)
SeqMax(list) ==
    CHOOSE v \in {list[j] : j \in 1..Len(list)} : \A j \in 1..Len(list) : list[j] <= v

(* torch.argmax: the Python index of the first maximal value of the row *)
ArgMax(row) == (CHOOSE j \in 1..Len(row) :
                   /\ row[j] = SeqMax(row)
                   /\ \A k \in 1..(j - 1) : row[k] /= SeqMax(row)) - 1

(* A triple always written <<row, column, score>> *)
SentenceEntryNoReverse(i, idxmax, value) == <<i, idxmax, value>>

(* Lines 1482-1485: the triple kept for row i *)
SentenceEntry(i, idxmax, value) ==
    IF isBackwardFlag THEN <<idxmax, i, value>> ELSE <<i, idxmax, value>>

(* Lines 1481-1485: goodSentenceindex after row i *)
KeepSentence(good, i, idxmax, value) ==
    IF save_sentences /\ value >= sentences_similarity_threshold
    THEN Append(good, SentenceEntry(i, idxmax, value))
    ELSE good

(* Lines 1465-1485: what row i adds to sum_max, sentence_count_analize,     *)
(* goodSentenceindex and the maxima taken                                   *)
RowStep(i, acc) ==
    LET row == similarities[i + 1]
        win == Window(row, i, closeSentence(Len(similarities), Len(row)))
    IN  IF source_blank[i + 1] THEN acc
        ELSE IF Len(win) = 0 THEN acc
        ELSE IF target_blank[ArgMax(row) + 1]
        THEN <<acc[1], acc[2], acc[3], Append(acc[4], <<i, SeqMax(win)>>)>>
        ELSE <<acc[1] + SeqMax(win), acc[2] + 1,
               KeepSentence(acc[3], i, ArgMax(row), SeqMax(win)),
               Append(acc[4], <<i, SeqMax(win)>>)>>

(* Lines 1004-1006: the same step in get_max_avg, which reads no line *)
RowStepAvg(k, acc) ==
    LET row == similarities[k + 1]
        win == Window(row, k, closeSentenceAvg(Len(similarities), Len(row)))
    IN  IF Len(win) = 0 THEN acc
        ELSE <<acc[1] + SeqMax(win), acc[2] + 1, acc[3], Append(acc[4], <<k, SeqMax(win)>>)>>

(* The loop over range(last).  The count is never negative: the test has   *)
(* each step evaluated before the next one starts.                         *)
RECURSIVE RowLoop(_, _, _)
RowLoop(i, last, acc) ==
    IF i >= last THEN acc
    ELSE LET next == IF strategy = "avg_max" THEN RowStepAvg(i, acc) ELSE RowStep(i, acc)
         IN  IF next[2] >= 0 THEN RowLoop(i + 1, last, next) ELSE acc

(* Lines 1447-1496 and 990-1010: for i in range(len(similarities)-1), then  *)
(* the division, which raises ZeroDivisionError when no row was counted     *)
windowed_score ==
    /\ pc = "window"
    /\ LET acc == RowLoop(0, Len(similarities) - 1, <<0, 0, <<>>, <<>>>>)
       IN  IF acc[2] = 0
           THEN pc' = "error" /\ UNCHANGED <<avg_sum_max, goodSentenceindex, maxtmp>>
           ELSE /\ pc' = "scored"
                /\ avg_sum_max' = <<acc[1], acc[2]>>
                /\ goodSentenceindex' = acc[3]
                /\ maxtmp' = acc[4]
    /\ UNCHANGED <<confVars, loopVars, levVars, results, pool, aligned, scores,
                   union_and_int, results_variable, output, skipped, weightVars, mergeVars,
                   cosineVars, inputVars>>
    /\ UNCHANGED <<similarities, source_blank, target_blank, isBackwardFlag, save_sentences,
                   sentences_similarity_threshold>>
    /\ UNCHANGED poolVars
    /\ UNCHANGED preprocessVars

----------------
(* merge_embedding with merging strategy 4, max_split3_embedding *)

(* The first vector in place of the elementwise maximum *)
first_embedding(vectors) == vectors[1]

(* Lines 78-79: np.amax(embedding, axis=0), the elementwise maximum *)
max_embedding(vectors) ==
    [d \in 1..Len(vectors[1]) |->
        CHOOSE x \in {vectors[i][d] : i \in 1..Len(vectors)} :
            \A i \in 1..Len(vectors) : vectors[i][d] <= x]

(* Lines 344-349: the maxima of the segments embedding[last_idx:idx] *)
RECURSIVE SegmentMaxima(_, _, _, _)
SegmentMaxima(vectors, idxs, last_idx, result) ==
    IF idxs = <<>> THEN result
    ELSE SegmentMaxima(vectors, Tail(idxs), Head(idxs),
                       result \o max_embedding(Slice(vectors, last_idx, Head(idxs))))

(* The second cut at twice the first *)
max_split3_thirds(vectors) ==
    LET n == Len(vectors)
        first_idx == n \div 3
        second_idx == 2 * first_idx
        result == IF n >= 3 THEN <<>>
                  ELSE IF n = 2
                  THEN PyGet(vectors, 0) \o PyGet(vectors, 1) \o max_embedding(vectors)
                  ELSE PyGet(vectors, 0) \o PyGet(vectors, 0) \o PyGet(vectors, 0)
        idxs == IF n >= 3 THEN <<first_idx, second_idx, n>> ELSE <<n>>
    IN  IF Len(result) = 0 THEN SegmentMaxima(vectors, idxs, 0, result) ELSE result

(* Lines 322-354 *)
max_split3_embedding(vectors) ==
    LET n == Len(vectors)
        first_idx == n \div 3
        second_idx == first_idx + n - 2 * first_idx
        result == IF n >= 3 THEN <<>>
                  ELSE IF n = 2
                  THEN PyGet(vectors, 0) \o PyGet(vectors, 1) \o max_embedding(vectors)
                  ELSE PyGet(vectors, 0) \o PyGet(vectors, 0) \o PyGet(vectors, 0)
        idxs == IF n >= 3 THEN <<first_idx, second_idx, n>> ELSE <<n>>
    IN  IF Len(result) = 0 THEN SegmentMaxima(vectors, idxs, 0, result) ELSE result

(* Lines 313-314 *)
merge_embedding ==
    /\ pc = "merge"
    /\ merged' = max_split3_embedding(embedding)
    /\ pc' = "merged"
    /\ UNCHANGED <<confVars, loopVars, levVars, results, pool, aligned, scores,
                   union_and_int, results_variable, output, skipped, weightVars, windowVars,
                   embedding, cosineVars, inputVars>>
    /\ UNCHANGED poolVars
    /\ UNCHANGED preprocessVars

----------------------------------------------------------------------------
(* cosine_similarity *)

(* The value of 0.0 / 0.0 *)
NaN == -3

(* scipy.spatial.distance.cosine: 1 - u.v / sqrt(u.u * v.v), in fixed       *)
(* point; with a zero vector the quotient is 0.0 / 0.0                      *)
spatial_distance_cosine(u, v) ==
    IF Dot(u, u) * Dot(v, v) = 0
    THEN NaN
    ELSE One - ((One * Dot(u, v)) \div ISqrt(Dot(u, u) * Dot(v, v)))

(* Lines 64-73, clipping=True; a comparison with NaN is false *)
cosine_similarity(a, b) ==
    LET cosine_similarity_0 == spatial_distance_cosine(a, b)
        cosine_distance == IF cosine_similarity_0 = NaN THEN NaN ELSE One - cosine_similarity_0
    IN  IF cosine_distance /= NaN /\ cosine_distance < 0
        THEN One - 0
        ELSE cosine_similarity_0

call_cosine_similarity ==
    /\ pc = "cosine"
    /\ cosine' = cosine_similarity(v1, v2)
    /\ pc' = "cosine_returned"
    /\ UNCHANGED <<confVars, loopVars, levVars, results, pool, aligned, scores,
                   union_and_int, results_variable, output, skipped, weightVars, windowVars,
                   mergeVars, v1, v2, inputVars>>
    /\ UNCHANGED poolVars
    /\ UNCHANGED preprocessVars

----------------------------------------------------------------------------
(* process_input_file.  A line is the tuple of its fields; the document     *)
(* field is "-", "path" (a file that exists) or "nofile" (one that does     *)
(* not); the entry appended for line idx is <<idx, field>>.                 *)

(* utils.expand_and_real_path_and_exists(path, raise_exception=True) *)
PathExists(path) == path /= "nofile"

(* The state of the loop: the four lists, the two flags, and whether line   *)
(* 561 raised                                                              *)
InputStart ==
    [src_docs |-> <<>>, trg_docs |-> <<>>, src_urls |-> <<>>, trg_urls |-> <<>>,
     get_docs |-> TRUE, get_urls |-> TRUE, raised |-> FALSE]

(* A placeholder taken for a document or a URL like any other *)
ReadLineNoPlaceholder(idx, st) ==
    LET line == data_src[idx + 1]
    IN  IF Len(line) /= 3 THEN st
        ELSE IF line[3] = "trg"
        THEN [st EXCEPT !.trg_docs = Append(@, <<idx, line[1]>>),
                        !.trg_urls = Append(@, <<idx, line[2]>>)]
        ELSE IF line[3] = "src"
        THEN [st EXCEPT !.src_docs = Append(@, <<idx, line[1]>>),
                        !.src_urls = Append(@, <<idx, line[2]>>)]
        ELSE st

(* Lines 530-567: one line of the input *)
ReadLine(idx, st) ==
    LET line == data_src[idx + 1]
    IN  IF Len(line) /= 3 THEN st
        ELSE IF line[3] \notin {"src", "trg"} THEN st
        ELSE LET trg == line[3] = "trg"
                 get_docs == st.get_docs /\ line[1] /= "-"
                 get_urls == st.get_urls /\ line[2] /= "-"
                 raised == get_docs /\ ~paths_to_docs_are_base64_values /\ ~PathExists(line[1])
                 docs_vector == IF trg THEN st.trg_docs ELSE st.src_docs
                 urls_vector == IF trg THEN st.trg_urls ELSE st.src_urls
                 docs1 == IF get_docs /\ ~raised THEN Append(docs_vector, <<idx, line[1]>>)
                          ELSE docs_vector
                 urls1 == IF get_urls /\ ~raised THEN Append(urls_vector, <<idx, line[2]>>)
                          ELSE urls_vector
             IN  [src_docs |-> IF trg THEN st.src_docs ELSE docs1,
                  trg_docs |-> IF trg THEN docs1 ELSE st.trg_docs,
                  src_urls |-> IF trg THEN st.src_urls ELSE urls1,
                  trg_urls |-> IF trg THEN urls1 ELSE st.trg_urls,
                  get_docs |-> get_docs, get_urls |-> get_urls, raised |-> raised]

(* Lines 525-528: the loop, left at max_noentries when it is set and not 0, *)
(* and by the exception of line 561                                         *)
RECURSIVE ReadLines(_, _)
ReadLines(idx, st) ==
    IF idx >= Len(data_src) \/ st.raised THEN st
    ELSE IF max_noentries /= None /\ max_noentries /= 0 /\ idx >= max_noentries THEN st
    ELSE ReadLines(idx + 1, ReadLine(idx, st))

(* [None] * len(list) *)
Nones(list) == [i \in 1..Len(list) |-> None]

(* Lines 509-598 *)
process_input_file ==
    /\ pc = "input"
    /\ LET st == ReadLines(0, InputStart)
           docs_s == IF ~st.get_docs THEN Nones(st.src_urls) ELSE st.src_docs
           docs_t == IF ~st.get_docs THEN Nones(st.trg_urls) ELSE st.trg_docs
           urls_s == IF ~st.get_urls THEN Nones(docs_s) ELSE st.src_urls
           urls_t == IF ~st.get_urls THEN Nones(docs_t) ELSE st.trg_urls
       IN  IF st.raised \/ (~st.get_docs /\ ~st.get_urls)
              \/ Len(docs_s) /= Len(urls_s) \/ Len(docs_t) /= Len(urls_t)
           THEN /\ pc' = "error"
                /\ UNCHANGED <<src_docs, trg_docs, src_urls, trg_urls>>
           ELSE /\ pc' = "input_done"
                /\ src_docs' = docs_s /\ trg_docs' = docs_t
                /\ src_urls' = urls_s /\ trg_urls' = urls_t
    /\ UNCHANGED <<strategy, src_vecs, trg_vecs, take_knn, faiss_reverse_direction, threshold,
                   results_strategy, src_nolines, trg_nolines, sim, apply_heuristics,
                   noprocesses, noworkers>>
    /\ UNCHANGED <<loopVars, levVars, results, pool, aligned, scores, union_and_int,
                   results_variable, output, skipped, weightVars, windowVars, mergeVars,
                   cosineVars, data_src, paths_to_docs_are_base64_values, max_noentries>>
    /\ UNCHANGED poolVars
    /\ UNCHANGED preprocessVars

----------------------------------------------------------------------------
(* apply_mask.  An embedding is [ndim |-> 1, values |-> a vector] once a    *)
(* document is merged, [ndim |-> 2, values |-> the sentence vectors]        *)
(* before.  The values of the mask are counted in machine epsilons.         *)

Epsilon == 1

(* np.delete(vector, mask <= sys.float_info.epsilon): the components whose  *)
(* mask value is above epsilon, in order                                    *)
RECURSIVE Delete(_, _, _)
Delete(vector, m, d) ==
    IF d > Len(vector) THEN <<>>
    ELSE IF m[d] <= Epsilon THEN Delete(vector, m, d + 1)
    ELSE <<vector[d]>> \o Delete(vector, m, d + 1)

(* embedding * mask *)
Times(vector, m) == [d \in 1..Len(vector) |-> vector[d] * m[d]]

(* Lines 621-635: one pass of the loop.  With one axis the product is a new *)
(* array stored in the list, and np.delete reads the loop variable, the     *)
(* array as it was; with two axes the rows of that array are overwritten.   *)
apply_mask_step(e, m, check) ==
    IF e.ndim = 1
    THEN IF check THEN [ndim |-> 1, values |-> Delete(e.values, m, 1)]
         ELSE [ndim |-> 1, values |-> Times(e.values, m)]
    ELSE LET rows == [r \in 1..Len(e.values) |-> Times(e.values[r], m)]
         IN  IF check
             THEN [ndim |-> 2, values |-> [r \in 1..Len(rows) |-> Delete(rows[r], m, 1)]]
             ELSE [ndim |-> 2, values |-> rows]

(* Lines 620-637 *)
apply_mask ==
    /\ pc = "mask"
    /\ embeddings' = [idx \in 1..Len(embeddings) |->
                         apply_mask_step(embeddings[idx], mask, check_zeros_mask)]
    /\ pc' = "masked"
    /\ UNCHANGED <<confVars, loopVars, levVars, results, pool, aligned, scores,
                   union_and_int, results_variable, output, skipped, weightVars, windowVars,
                   mergeVars, cosineVars, inputVars>>
    /\ UNCHANGED <<loaded_embeddings, paths_lines, mask, check_zeros_mask>>
    /\ UNCHANGED poolVars

----------------------------------------------------------------------------
(* weight_embeddings.  An embedding is the sequence of the sentence vectors *)
(* of a document, each [vector, sl, idf]: the vector as loaded and the two  *)
(* weights it has been multiplied by, <<1, 1>> for none.                    *)

Unweighted == <<1, 1>>

(* Lines 270-279: the weights of the strategy, one [sl, idf] per line of    *)
(* each document of paths                                                   *)
get_weights(p) ==
    [d \in 1..Len(p) |->
        [i \in 1..Len(p[d]) |->
            [sl |-> IF weights_strategy \in {1, 3} THEN get_weights_sl_all(p)[d][i]
                    ELSE Unweighted,
             idf |-> IF weights_strategy \in {2, 3} THEN get_weights_idf_all(p)[d][i]
                     ELSE Unweighted]]]

(* Lines 286-297: embs[idx] *= weight[idx] for every sentence, or the       *)
(* embedding as it is when it has not as many sentences as weights          *)
apply_weights(e, weight) ==
    IF Len(e) /= Len(weight) THEN e
    ELSE [idx \in 1..Len(e) |->
             [vector |-> e[idx].vector, sl |-> weight[idx].sl, idf |-> weight[idx].idf]]

(* Lines 256-299 *)
weight_embeddings ==
    /\ pc = "weight"
    /\ IF weights_strategy = 0
       THEN pc' = "weighted" /\ UNCHANGED embeddings
       ELSE IF Len(paths_lines) /= Len(embeddings)
       THEN pc' = "error" /\ UNCHANGED embeddings
       ELSE IF weights_strategy \notin {1, 2, 3}
       THEN pc' = "error" /\ UNCHANGED embeddings
       ELSE LET weights == get_weights(paths_lines)
            IN  /\ pc' = "weighted"
                /\ embeddings' =
                      IF Len(embeddings) /= Len(weights) THEN embeddings
                      ELSE [emb_idx \in 1..Len(embeddings) |->
                               apply_weights(embeddings[emb_idx], weights[emb_idx])]
    /\ UNCHANGED <<confVars, loopVars, levVars, results, pool, aligned, scores,
                   union_and_int, results_variable, output, skipped, weightVars, windowVars,
                   mergeVars, cosineVars, inputVars>>
    /\ UNCHANGED <<loaded_embeddings, paths_lines, mask, check_zeros_mask>>
    /\ UNCHANGED poolVars

----------------------------------------------------------------------------
(* Defaults of the variables a specification does not use *)

NoWeights ==
    /\ src_lines = <<>> /\ trg_lines = <<>> /\ weights_strategy = 0
    /\ max_loaded_sent_embs_at_once = 0
    /\ end_idx = 0 /\ src_weights = <<>> /\ trg_weights = <<>>

NoWindow ==
    /\ similarities = <<>> /\ source_blank = <<>> /\ target_blank = <<>> /\ avg_sum_max = None
    /\ isBackwardFlag = FALSE /\ save_sentences = FALSE /\ sentences_similarity_threshold = 0
    /\ goodSentenceindex = <<>> /\ maxtmp = <<>>

NoMerge == embedding = <<>> /\ merged = None

NoCosine == v1 = <<>> /\ v2 = <<>> /\ cosine = None

NoInput ==
    /\ data_src = <<>> /\ paths_to_docs_are_base64_values = FALSE /\ max_noentries = None
    /\ src_urls = <<>> /\ trg_urls = <<>>

NoPreprocess ==
    /\ embeddings = <<>> /\ loaded_embeddings = <<>> /\ paths_lines = <<>>
    /\ mask = <<>> /\ check_zeros_mask = FALSE

NoUnits == NoWeights /\ NoWindow /\ NoMerge /\ NoCosine /\ NoInput /\ NoPreprocess

----------------------------------------------------------------------------
(* Identifier lists: distinct on each side; the two sides either share the  *)
(* identifiers (a collection aligned with itself) or have disjoint ones     *)

Ids(n, offset) == [i \in 1..n |-> i + offset]

(* Defaults of the variables a strategy does not use *)
NoFaiss ==
    /\ src_vecs = <<>> /\ trg_vecs = <<>> /\ take_knn = 0
    /\ faiss_reverse_direction = FALSE /\ pool = <<>>

NoLev ==
    /\ levenshtein_nfactor = None /\ lev_calls = {}
    /\ dispatched = <<>> /\ inflight = {}

NoScorer ==
    /\ NoLev
    /\ src_nolines = <<>> /\ trg_nolines = <<>> /\ sim = <<>>
    /\ apply_heuristics = FALSE /\ noprocesses = 0 /\ noworkers = 0
    /\ src_idx = 0 /\ trg_idx = 0 /\ processes_args = <<>> /\ completed = <<>>

InitFaiss ==
    /\ pc = "get_faiss"
    /\ strategy = "faiss"
    /\ \E ns, nt \in 1..MaxDocs :
         /\ ns * nt <= MaxPairs
         /\ src_docs = Ids(ns, 0)
         /\ trg_docs \in {Ids(nt, 0), Ids(nt, MaxDocs)}
         /\ src_vecs \in [1..ns -> Vectors]
         /\ trg_vecs \in [1..nt -> Vectors]
    /\ take_knn \in 1..MaxKnn
    /\ faiss_reverse_direction \in BOOLEAN
    /\ threshold \in ThresholdValues
    /\ results_strategy = 0
    /\ results = <<>>
    /\ pool = <<>>
    /\ aligned = EmptyResult
    /\ scores = EmptyDict
    /\ union_and_int = [union |-> {}, intersection |-> {}]
    /\ results_variable = {}
    /\ output = <<>>
    /\ NoScorer
    /\ skipped = FALSE
    /\ NoUnits

NextFaiss == get_faiss \/ docalign_only \/ print_results

SpecFaiss == InitFaiss /\ [][NextFaiss]_vars

(* The pairwise scorer alone: get_lev ("lev") or get_distance ("just-merge"), *)
(* with or without the worker pool                                          *)
ScorerShapes == {<<ns, nt>> \in (0..MaxPairs) \X (0..MaxPairs) : ns * nt <= MaxPairs /\ ns + nt >= 1}

InitScorer ==
    /\ strategy \in {"lev", "just-merge"}
    /\ noprocesses \in {0, 2}
    /\ pc = IF strategy = "lev" THEN "get_lev"
            ELSE IF noprocesses > 0 THEN "assemble" ELSE "sequential"
    /\ NoLev
    /\ noworkers \in 1..MaxWorkers
    /\ threshold \in ThresholdValues
    /\ apply_heuristics \in BOOLEAN
    /\ \E shape \in ScorerShapes :
         /\ src_docs = Ids(shape[1], 0)
         /\ trg_docs = Ids(shape[2], MaxPairs)
         /\ src_nolines \in [1..shape[1] -> IF apply_heuristics THEN LineCounts ELSE {3}]
         /\ trg_nolines \in [1..shape[2] -> IF apply_heuristics THEN LineCounts ELSE {3}]
         /\ sim \in [1..shape[1] -> [1..shape[2] -> Similarities \ {80}]]
    /\ results_strategy = 0
    /\ src_idx = 0 /\ trg_idx = 0 /\ processes_args = <<>> /\ completed = <<>>
    /\ results = <<>>
    /\ aligned = EmptyResult
    /\ scores = EmptyDict
    /\ union_and_int = [union |-> {}, intersection |-> {}]
    /\ results_variable = {}
    /\ output = <<>>
    /\ NoFaiss
    /\ skipped = FALSE
    /\ NoUnits

NextScorer == get_lev_nfactor \/ dispatch_batch \/ worker_done \/ collect_batch \/ score_sequential

SpecScorer == InitScorer /\ [][NextScorer]_vars

(* Sentence counts, the empty document among them *)
SentenceCounts == {0} \cup LineCounts

(* The worker-pool path of get_lev and get_distance alone *)
InitPool ==
    /\ strategy \in {"lev", "just-merge"}
    /\ noprocesses = 2
    /\ pc = IF strategy = "lev" THEN "get_lev" ELSE "assemble"
    /\ NoLev
    /\ noworkers \in 1..MaxWorkers
    /\ threshold \in ThresholdValues
    /\ apply_heuristics \in BOOLEAN
    /\ \E shape \in ScorerShapes :
         /\ src_docs = Ids(shape[1], 0)
         /\ trg_docs = Ids(shape[2], MaxPairs)
         /\ src_nolines \in [1..shape[1] -> IF apply_heuristics THEN SentenceCounts ELSE {3}]
         /\ trg_nolines \in [1..shape[2] -> IF apply_heuristics THEN SentenceCounts ELSE {3}]
         /\ sim \in [1..shape[1] -> [1..shape[2] ->
                        IF threshold = None THEN {One} ELSE Similarities \ {80}]]
    /\ results_strategy = 0
    /\ src_idx = 0 /\ trg_idx = 0 /\ processes_args = <<>> /\ completed = <<>>
    /\ results = <<>>
    /\ aligned = EmptyResult
    /\ scores = EmptyDict
    /\ union_and_int = [union |-> {}, intersection |-> {}]
    /\ results_variable = {}
    /\ output = <<>>
    /\ NoFaiss
    /\ skipped = FALSE
    /\ NoUnits

NextPool == get_lev_nfactor \/ dispatch_batch \/ worker_done \/ collect_batch

SpecPool == InitPool /\ [][NextPool]_vars

(* The loop does not read the scores: for its termination one score and no *)
(* threshold, documents of 3 and 10 sentences for the filter               *)
InitPoolLive ==
    /\ threshold = None
    /\ InitPool
    /\ \A i \in DOMAIN src_nolines : src_nolines[i] \in LineCounts
    /\ \A i \in DOMAIN trg_nolines : trg_nolines[i] \in LineCounts

(* The main process runs on, and every task handed to the pool ends *)
SpecPoolLive == InitPoolLive /\ [][NextPool]_vars /\ WF_vars(NextPool)

(* get_lev on documents of different sentence counts *)

InitNorm ==
    /\ strategy = "lev"
    /\ noprocesses \in {0, 2}
    /\ pc = "get_lev"
    /\ NoLev
    /\ noworkers \in 1..MaxWorkers
    /\ threshold = None
    /\ apply_heuristics \in BOOLEAN
    /\ \E shape \in ScorerShapes :
         /\ src_docs = Ids(shape[1], 0)
         /\ trg_docs = Ids(shape[2], MaxPairs)
         /\ src_nolines \in [1..shape[1] -> SentenceCounts]
         /\ trg_nolines \in [1..shape[2] -> SentenceCounts]
         /\ sim = [i \in 1..shape[1] |-> [j \in 1..shape[2] |-> One]]
    /\ results_strategy = 0
    /\ src_idx = 0 /\ trg_idx = 0 /\ processes_args = <<>> /\ completed = <<>>
    /\ results = <<>>
    /\ aligned = EmptyResult
    /\ scores = EmptyDict
    /\ union_and_int = [union |-> {}, intersection |-> {}]
    /\ results_variable = {}
    /\ output = <<>>
    /\ NoFaiss
    /\ skipped = FALSE
    /\ NoUnits

SpecNorm == InitNorm /\ [][NextScorer]_vars

(* The loading loop of main with the idf weights (weights_strategy 2):      *)
(* sentences are numbers, a document is the sequence of its lines           *)
WeightDocs == {<<1>>, <<2>>, <<1, 1>>, <<1, 2>>}

InitIdf ==
    /\ pc = "load"
    /\ strategy = "preprocess"
    /\ \E ns, nt \in 1..MaxDocs :
         /\ src_lines \in [1..ns -> WeightDocs]
         /\ trg_lines \in [1..nt -> WeightDocs]
    /\ weights_strategy = 2
    /\ max_loaded_sent_embs_at_once \in 1..MaxDocs
    /\ end_idx = 0 /\ src_weights = <<>> /\ trg_weights = <<>>
    /\ NoWindow /\ NoMerge /\ NoCosine /\ NoInput /\ NoPreprocess
    /\ src_docs = <<>> /\ trg_docs = <<>>
    /\ threshold = None /\ results_strategy = 0
    /\ results = <<>>
    /\ aligned = EmptyResult
    /\ scores = EmptyDict
    /\ union_and_int = [union |-> {}, intersection |-> {}]
    /\ results_variable = {}
    /\ output = <<>>
    /\ NoFaiss
    /\ NoScorer
    /\ skipped = FALSE

NextLoad == load_batch \/ load_done

SpecIdf == InitIdf /\ [][NextLoad]_vars

(* The loading loop with the sentence-length weights (weights_strategy 1),  *)
(* on every document of at most MaxSentences lines                          *)
Sentences == 0..4

SentenceDocs == UNION {[1..n -> Sentences] : n \in 0..MaxSentences}

InitSl ==
    /\ pc = "load"
    /\ strategy = "preprocess"
    /\ src_lines \in [1..1 -> SentenceDocs]
    /\ trg_lines \in {<<>>, <<<<1>>>>}
    /\ weights_strategy = 1
    /\ max_loaded_sent_embs_at_once = 1
    /\ end_idx = 0 /\ src_weights = <<>> /\ trg_weights = <<>>
    /\ NoWindow /\ NoMerge /\ NoCosine /\ NoInput /\ NoPreprocess
    /\ src_docs = <<>> /\ trg_docs = <<>>
    /\ threshold = None /\ results_strategy = 0
    /\ results = <<>>
    /\ aligned = EmptyResult
    /\ scores = EmptyDict
    /\ union_and_int = [union |-> {}, intersection |-> {}]
    /\ results_variable = {}
    /\ output = <<>>
    /\ NoFaiss
    /\ NoScorer
    /\ skipped = FALSE

SpecSl == InitSl /\ [][NextLoad]_vars

(* The windowed score of one document pair, on every small similarity      *)
(* matrix, and on the matrix of two 5-sentence documents whose sentence i   *)
(* matches sentence i at 0.9                                                *)
SentenceSimilarities == {10, 90}

DiagonalMatrix == [i \in 1..5 |-> [j \in 1..5 |-> IF i = j THEN 90 ELSE 10]]

(* Two documents of WindowMin + 1 sentences, every sentence of the one      *)
(* closest to the first sentence of the other                               *)
Long == WindowMin + 1

LongMatrix == [i \in 1..Long |-> [j \in 1..Long |-> IF j = 1 THEN 90 ELSE 10]]

SentenceThresholds == {0, 50}

(* Lines 1433-1437: the longer document gives the rows, the target document *)
(* when the two have the same length; lines 978-981 for get_max_avg         *)
InitWindow ==
    /\ pc = "window"
    /\ strategy \in {"mix-faiss-lev-full", "avg_max"}
    /\ \/ \E n \in 1..MaxRows : \E m \in 1..Min(n, 2) :
            /\ similarities \in [1..n -> [1..m -> SentenceSimilarities]]
            /\ source_blank \in [1..n -> IF strategy = "avg_max" THEN {FALSE} ELSE BOOLEAN]
            /\ target_blank \in [1..m -> IF strategy = "avg_max" THEN {FALSE} ELSE BOOLEAN]
       \/ /\ similarities \in {DiagonalMatrix, LongMatrix}
          /\ source_blank = [i \in 1..Len(similarities) |-> FALSE]
          /\ target_blank = [i \in 1..Len(similarities) |-> FALSE]
    /\ isBackwardFlag \in IF strategy = "avg_max" THEN {FALSE}
                          ELSE IF Len(similarities) > Len(similarities[1]) THEN BOOLEAN
                          ELSE {TRUE}
    /\ save_sentences \in IF strategy = "avg_max" THEN {FALSE} ELSE BOOLEAN
    /\ sentences_similarity_threshold \in IF save_sentences THEN SentenceThresholds ELSE {0}
    /\ goodSentenceindex = <<>>
    /\ maxtmp = <<>>
    /\ avg_sum_max = None
    /\ NoWeights /\ NoMerge /\ NoCosine /\ NoInput /\ NoPreprocess
    /\ src_docs = <<>> /\ trg_docs = <<>>
    /\ threshold = None /\ results_strategy = 0
    /\ results = <<>>
    /\ aligned = EmptyResult
    /\ scores = EmptyDict
    /\ union_and_int = [union |-> {}, intersection |-> {}]
    /\ results_variable = {}
    /\ output = <<>>
    /\ NoFaiss
    /\ NoScorer
    /\ skipped = FALSE

NextWindow == windowed_score

SpecWindow == InitWindow /\ [][NextWindow]_vars

(* max_split3_embedding on every sequence of 1..MaxVectors vectors of       *)
(* dimension 1 or 2                                                        *)
Coordinates == {0, 1}

InitMerge ==
    /\ pc = "merge"
    /\ strategy = "merge"
    /\ \E n \in 1..MaxVectors, dim \in 1..2 : embedding \in [1..n -> [1..dim -> Coordinates]]
    /\ merged = None
    /\ NoWeights /\ NoWindow /\ NoCosine /\ NoInput /\ NoPreprocess
    /\ src_docs = <<>> /\ trg_docs = <<>>
    /\ threshold = None /\ results_strategy = 0
    /\ results = <<>>
    /\ aligned = EmptyResult
    /\ scores = EmptyDict
    /\ union_and_int = [union |-> {}, intersection |-> {}]
    /\ results_variable = {}
    /\ output = <<>>
    /\ NoFaiss
    /\ NoScorer
    /\ skipped = FALSE

NextMerge == merge_embedding

SpecMerge == InitMerge /\ [][NextMerge]_vars

(* cosine_similarity on every pair of small vectors, the zero vector among *)
(* them                                                                    *)
SignedVectors == {-1, 0, 1} \X {-1, 0, 1}

InitCosine ==
    /\ pc = "cosine"
    /\ strategy = "cosine"
    /\ v1 \in SignedVectors /\ v2 \in SignedVectors
    /\ cosine = None
    /\ NoWeights /\ NoWindow /\ NoMerge /\ NoInput /\ NoPreprocess
    /\ src_docs = <<>> /\ trg_docs = <<>>
    /\ threshold = None /\ results_strategy = 0
    /\ results = <<>>
    /\ aligned = EmptyResult
    /\ scores = EmptyDict
    /\ union_and_int = [union |-> {}, intersection |-> {}]
    /\ results_variable = {}
    /\ output = <<>>
    /\ NoFaiss
    /\ NoScorer
    /\ skipped = FALSE

NextCosine == call_cosine_similarity

SpecCosine == InitCosine /\ [][NextCosine]_vars

(* process_input_file on every input of at most MaxRecords lines: lines of  *)
(* three fields, a line of two fields and a line with an unknown side       *)
InputLines ==
    ({"-", "path", "nofile"} \X {"-", "url"} \X {"src", "trg"})
        \cup {<<"path", "url">>, <<"path", "url", "xyz">>}

InitInput ==
    /\ pc = "input"
    /\ strategy = "input"
    /\ \E n \in 0..MaxRecords : data_src \in [1..n -> InputLines]
    /\ paths_to_docs_are_base64_values \in BOOLEAN
    /\ max_noentries \in {None, 2}
    /\ src_urls = <<>> /\ trg_urls = <<>>
    /\ NoWeights /\ NoWindow /\ NoMerge /\ NoCosine /\ NoPreprocess
    /\ src_docs = <<>> /\ trg_docs = <<>>
    /\ threshold = None /\ results_strategy = 0
    /\ results = <<>>
    /\ aligned = EmptyResult
    /\ scores = EmptyDict
    /\ union_and_int = [union |-> {}, intersection |-> {}]
    /\ results_variable = {}
    /\ output = <<>>
    /\ NoFaiss
    /\ NoScorer
    /\ skipped = FALSE

NextInput == process_input_file

SpecInput == InitInput /\ [][NextInput]_vars

(* weight_embeddings on lists of up to MaxEmbeddings documents and of up   *)
(* to MaxEmbeddings embeddings of one or two sentence vectors              *)
SentenceVectors == {[vector |-> <<c>>, sl |-> Unweighted, idf |-> Unweighted] : c \in {1, 2}}

LoadedEmbeddings == UNION {[1..n -> SentenceVectors] : n \in 1..2}

WeightsStrategies == 0..4

InitWeight ==
    /\ pc = "weight"
    /\ strategy = "preprocess"
    /\ weights_strategy \in WeightsStrategies
    /\ \E n \in 0..MaxEmbeddings : embeddings \in [1..n -> LoadedEmbeddings]
    /\ \E n \in 0..MaxEmbeddings : paths_lines \in [1..n -> WeightDocs]
    /\ loaded_embeddings = embeddings
    /\ mask = <<>> /\ check_zeros_mask = FALSE
    /\ src_lines = <<>> /\ trg_lines = <<>>
    /\ max_loaded_sent_embs_at_once = 0
    /\ end_idx = 0 /\ src_weights = <<>> /\ trg_weights = <<>>
    /\ NoWindow /\ NoMerge /\ NoCosine /\ NoInput
    /\ src_docs = <<>> /\ trg_docs = <<>>
    /\ threshold = None /\ results_strategy = 0
    /\ results = <<>>
    /\ aligned = EmptyResult
    /\ scores = EmptyDict
    /\ union_and_int = [union |-> {}, intersection |-> {}]
    /\ results_variable = {}
    /\ output = <<>>
    /\ NoFaiss
    /\ NoScorer
    /\ skipped = FALSE

NextWeight == weight_embeddings

SpecWeight == InitWeight /\ [][NextWeight]_vars

(* apply_mask on lists of merged vectors and on lists of sentence sequences *)
Components == {-1, 2}

MaskValues == {-2, 0, Epsilon, 2, 3}

Embeddings1 == {[ndim |-> 1, values |-> v] : v \in [1..MaskDim -> Components]}

Embeddings2 ==
    {[ndim |-> 2, values |-> v] : v \in UNION {[1..n -> [1..MaskDim -> Components]] : n \in 1..2}}

InitMask ==
    /\ pc = "mask"
    /\ strategy = "preprocess"
    /\ \E n \in 1..MaxEmbeddings, kind \in {Embeddings1, Embeddings2} :
            embeddings \in [1..n -> kind]
    /\ loaded_embeddings = embeddings
    /\ paths_lines = <<>>
    /\ mask \in [1..MaskDim -> MaskValues]
    /\ check_zeros_mask \in BOOLEAN
    /\ NoWeights /\ NoWindow /\ NoMerge /\ NoCosine /\ NoInput
    /\ src_docs = <<>> /\ trg_docs = <<>>
    /\ threshold = None /\ results_strategy = 0
    /\ results = <<>>
    /\ aligned = EmptyResult
    /\ scores = EmptyDict
    /\ union_and_int = [union |-> {}, intersection |-> {}]
    /\ results_variable = {}
    /\ output = <<>>
    /\ NoFaiss
    /\ NoScorer
    /\ skipped = FALSE

NextMask == apply_mask

SpecMask == InitMask /\ [][NextMask]_vars

(* filter alone, on every pair of line counts *)
InitFilter ==
    /\ pc = "filter"
    /\ strategy = "filter"
    /\ src_nolines \in [1..1 -> (0..MaxLines) \cup {LongDoc}]
    /\ trg_nolines \in [1..1 -> (0..MaxLines) \cup {LongDoc}]
    /\ src_docs = <<>> /\ trg_docs = <<>> /\ sim = <<>>
    /\ apply_heuristics = TRUE /\ noprocesses = 0 /\ noworkers = 0
    /\ threshold = None /\ results_strategy = 0
    /\ NoLev
    /\ src_idx = 0 /\ trg_idx = 0 /\ processes_args = <<>> /\ completed = <<>>
    /\ results = <<>>
    /\ aligned = EmptyResult
    /\ scores = EmptyDict
    /\ union_and_int = [union |-> {}, intersection |-> {}]
    /\ results_variable = {}
    /\ output = <<>>
    /\ NoFaiss
    /\ skipped = FALSE
    /\ NoUnits

NextFilter == apply_filter

SpecFilter == InitFilter /\ [][NextFilter]_vars

(* Scoring without the worker pool, followed by the best-match resolution  *)
(* and the result lines                                                    *)
InitResolve ==
    /\ strategy \in {"lev", "just-merge"}
    /\ noprocesses = 0
    /\ pc = IF strategy = "lev" THEN "get_lev" ELSE "sequential"
    /\ NoLev
    /\ noworkers = 0
    /\ threshold \in ThresholdValues
    /\ apply_heuristics = FALSE
    /\ \E shape \in ScorerShapes :
         /\ src_docs = Ids(shape[1], 0)
         /\ trg_docs \in {Ids(shape[2], 0), Ids(shape[2], MaxPairs)}
         /\ src_nolines = [i \in 1..shape[1] |-> 3]
         /\ trg_nolines = [i \in 1..shape[2] |-> 3]
         /\ sim \in [1..shape[1] -> [1..shape[2] -> Similarities]]
    /\ results_strategy \in {0, 1}
    /\ src_idx = 0 /\ trg_idx = 0 /\ processes_args = <<>> /\ completed = <<>>
    /\ results = <<>>
    /\ aligned = EmptyResult
    /\ scores = EmptyDict
    /\ union_and_int = [union |-> {}, intersection |-> {}]
    /\ results_variable = {}
    /\ output = <<>>
    /\ NoFaiss
    /\ skipped = FALSE
    /\ NoUnits

NextResolve == get_lev_nfactor \/ score_sequential \/ docalign_best \/ union_and_intersection \/ print_results

SpecResolve == InitResolve /\ [][NextResolve]_vars

(* Every strategy, from its inputs to the result lines *)
InitPipeline == InitFaiss \/ InitResolve

NextPipeline == NextFaiss \/ NextResolve

SpecPipeline == InitPipeline /\ [][NextPipeline]_vars

(* Every scoring strategy, up to the list it returns *)
InitScoring == InitFaiss \/ InitScorer

NextScoring == get_faiss \/ NextScorer

SpecScoring == InitScoring /\ [][NextScoring]_vars

----------------------------------------------------------------------------
(* Claims about get_faiss *)

FaissReturned == strategy = "faiss" /\ pc /= "get_faiss"

(* C1: no source document and no target document appears in more than one  *)
(* pair emitted by get_faiss, for every neighbourhood size, also one       *)
(* larger than the number of indexed documents.                            *)
C1_OneToOne ==
    FaissReturned =>
        \A i, j \in 1..Len(results) :
            i /= j => results[i][1] /= results[j][1] /\ results[i][2] /= results[j][2]

(* The two collections are the same documents with the same vectors *)
IdenticalSets == src_docs = trg_docs /\ src_vecs = trg_vecs

(* Document d is emitted paired with itself at score 1.0, and in no other pair *)
SelfMatched(d) ==
    /\ \E i \in 1..Len(results) : results[i] = <<d, d, One>>
    /\ \A i \in 1..Len(results) :
          (results[i][1] = d \/ results[i][2] = d) => results[i] = <<d, d, One>>

DistinctDirections ==
    /\ \A i \in 1..Len(src_vecs) : Dot(src_vecs[i], src_vecs[i]) > 0
    /\ \A i, j \in 1..Len(src_vecs) :
          i /= j => NormalizedIP(src_vecs[i], src_vecs[j]) < One

----------------------------------------------------------------------------
(* Claims about the best-match resolution *)

BestMatch == strategy \in {"lev", "just-merge"}

Resolved == BestMatch /\ pc \in {"print", "done"}

AllIds == {src_docs[i] : i \in 1..Len(src_docs)} \cup {trg_docs[i] : i \in 1..Len(trg_docs)}

(* C3: for every candidate pool, the empty one too, the intersection       *)
(* returned by union_and_intersection is a subset of the union.            *)
C3_IntersectionInUnion ==
    Resolved => union_and_int.intersection \subseteq union_and_int.union

C3_Witness ==
    /\ Resolved
    /\ union_and_int.intersection /= {}
    /\ union_and_int.intersection /= union_and_int.union

(* t is the recorded best target of s, and s the recorded best source of t *)
MutualBest(s, t) ==
    /\ s \in DOMAIN aligned.src /\ aligned.src[s][1] = t
    /\ t \in DOMAIN aligned.trg /\ aligned.trg[t][1] = s

(* C4: (s, t) is in the intersection exactly when t is the recorded best   *)
(* target of s and s the recorded best source of t; the union is the set   *)
(* of the (s, best target of s) and the (best source of t, t).             *)
C4_MutualBest ==
    Resolved =>
        /\ \A s, t \in AllIds : <<s, t>> \in union_and_int.intersection <=> MutualBest(s, t)
        /\ union_and_int.union =
              {<<s, aligned.src[s][1]>> : s \in DOMAIN aligned.src}
              \cup {<<aligned.trg[t][1], t>> : t \in DOMAIN aligned.trg}

C4_Witness ==
    /\ Resolved
    /\ \E s \in DOMAIN aligned.src : MutualBest(s, aligned.src[s][1])
    /\ \E s \in DOMAIN aligned.src : ~MutualBest(s, aligned.src[s][1])
    /\ Cardinality(union_and_int.union) >= 3

----------------------------------------------------------------------------
(* Claims about the worker-pool path of get_lev and get_distance *)

(* list.index(x) + 1 *)
IndexOf(list, x) == CHOOSE i \in 1..Len(list) : list[i] = x

(* The flattened index, row-major over source x target, of a result entry *)
FlatIndex(r) == (IndexOf(src_docs, r[1]) - 1) * Len(trg_docs) + (IndexOf(trg_docs, r[2]) - 1)

AboveThreshold(score) == threshold = None \/ score >= threshold

(* The pairs (s, t), as Python indexes, that are not filtered and whose    *)
(* score reaches the threshold                                             *)
KeptPairs ==
    {p \in (0..(Len(src_docs) - 1)) \X (0..(Len(trg_docs) - 1)) :
        ~Filtered(p[1], p[2]) /\ AboveThreshold(sim[p[1] + 1][p[2] + 1])}

Flat(p) == p[1] * Len(trg_docs) + p[2]

(* The kept pairs in row-major order, each with its score *)
KeptInOrder ==
    [i \in 1..Cardinality(KeptPairs) |->
        LET p == CHOOSE q \in KeptPairs :
                    Cardinality({x \in KeptPairs : Flat(x) < Flat(q)}) = i - 1
        IN  <<src_docs[p[1] + 1], trg_docs[p[2] + 1], sim[p[1] + 1][p[2] + 1]>>]

TaskFailed == \E i \in 1..Len(completed) : completed[i].outcome = "raised"

----------------------------------------------------------------------------
(* Claims about filter *)

(* C6: filter skips a pair exactly when a document has no sentence, or a   *)
(* document has 10 or more and the two shares of the combined count differ *)
(* by 0.3 or more; so 3 against 100 is skipped, and no pair of documents   *)
(* of 1 to 9 sentences is.                                                 *)
C6_Filter ==
    (strategy = "filter" /\ pc = "filtered") =>
        LET a == src_nolines[1]
            b == trg_nolines[1]
            diff == IF a >= b THEN a - b ELSE b - a
        IN  /\ skipped <=> \/ a = 0 \/ b = 0
                           \/ (a >= 10 \/ b >= 10) /\ 10 * diff >= 3 * (a + b)
            /\ (a = 3 /\ b = LongDoc) => skipped
            /\ (a \in 1..9 /\ b \in 1..9) => ~skipped

C6_Witness ==
    /\ strategy = "filter" /\ pc = "filtered"
    /\ src_nolines[1] = 3 /\ trg_nolines[1] = LongDoc /\ skipped

----------------------------------------------------------------------------
(* Claims about the result lines and the threshold *)

(* C7: every result line carries the score the scoring strategy gave to    *)
(* that (source, target) pair, also when an identifier is on both sides.   *)
C7_ScoreOfPair ==
    pc = "done" =>
        \A i \in 1..Len(output) : \E j \in 1..Len(results) : results[j] = output[i]

(* C8: the result lines are in non-increasing order of score. *)
C8_OutputSorted ==
    pc = "done" => \A i \in 1..(Len(output) - 1) : output[i][3] >= output[i + 1][3]

C8_Witness ==
    /\ pc = "done" /\ Len(output) >= 3
    /\ output[1][3] > output[Len(output)][3]

(* The documents of a triple of get_faiss's pool, in result orientation *)
PoolDocs(r) ==
    IF faiss_reverse_direction
    THEN <<PyGet(faiss_trg_docs, r[2]), PyGet(faiss_src_docs, r[1])>>
    ELSE <<PyGet(faiss_src_docs, r[1]), PyGet(faiss_trg_docs, r[2])>>

(* C9: with a threshold, no pair below it is emitted by get_faiss or added *)
(* to the result list of get_lev / get_distance, with or without the       *)
(* worker pool; and every scored pair at or above it is kept when it is    *)
(* eligible (for get_faiss: neither of its documents is in an emitted      *)
(* pair; for get_lev / get_distance: it passed the filter).                *)
C9_Threshold ==
    /\ \A i \in 1..Len(results) : AboveThreshold(results[i][3])
    /\ FaissReturned =>
          \A k \in 1..Len(pool) :
              AboveThreshold(pool[k][3]) =>
                  \E i \in 1..Len(results) :
                      \/ results[i][1] = PoolDocs(pool[k])[1]
                      \/ results[i][2] = PoolDocs(pool[k])[2]
    /\ (BestMatch /\ pc = "returned") =>
          \A p \in KeptPairs :
              \E i \in 1..Len(results) :
                  results[i] = <<src_docs[p[1] + 1], trg_docs[p[2] + 1], sim[p[1] + 1][p[2] + 1]>>

(* The worker-pool path returned: a pair below the threshold was dropped, another kept *)
C9_Witness ==
    /\ BestMatch /\ pc = "returned" /\ noprocesses > 0 /\ threshold /= None
    /\ Len(results) >= 1
    /\ \E s \in 1..Len(src_docs), t \in 1..Len(trg_docs) :
          ~Filtered(s - 1, t - 1) /\ sim[s][t] < threshold

----------------------------------------------------------------------------
(* Claims about the normalization factor of get_lev *)

AllSentenceCounts ==
    {src_nolines[i] : i \in 1..Len(src_nolines)} \cup {trg_nolines[i] : i \in 1..Len(trg_nolines)}

MaxSentenceCount == CHOOSE m \in AllSentenceCounts \cup {0} : \A n \in AllSentenceCounts : n <= m

(* C11: in get_lev no edit-distance call is made before the normalization   *)
(* factor is computed, the factor is assigned once and never changes, and   *)
(* every call, with or without the worker pool, is given the maximum        *)
(* sentence count over all source and target documents.                     *)
C11_GlobalFactor ==
    /\ [](pc = "get_lev" => lev_calls = {})
    /\ [](\A c \in lev_calls : c[3] = MaxSentenceCount)
    /\ [][levenshtein_nfactor' /= levenshtein_nfactor
            => pc = "get_lev" /\ levenshtein_nfactor = None /\ lev_calls = {}]_vars

(* The pool has scored two pairs, one of them between two documents both    *)
(* shorter than the longest document of the call                           *)
C11_Witness ==
    /\ strategy = "lev" /\ noprocesses > 0 /\ pc = "returned"
    /\ Cardinality(lev_calls) >= 2
    /\ \E c \in lev_calls :
         Max(src_nolines[c[1] + 1], trg_nolines[c[2] + 1]) < c[3]

----------------------------------------------------------------------------
(* Claims about the sentence weights *)

AllLines == src_lines \o trg_lines

(* The fractions a / b and c / d are the same number *)
SameFraction(x, y) == x[1] * y[2] = y[1] * x[2]

(* C12: once every document is loaded, the idf weight of every line of      *)
(* every document is 1 + ln(N_docs / df), N_docs the number of source plus  *)
(* target documents of the run and df the number of those documents that    *)
(* hold the line, whatever the size of the loading batches.                 *)
C12_IdfWholeRun ==
    pc = "loaded" =>
        /\ \A d \in 1..Len(src_lines) : \A i \in 1..Len(src_lines[d]) :
              SameFraction(src_weights[d][i],
                           <<Len(AllLines), DocFrequency(AllLines, src_lines[d][i])>>)
        /\ \A d \in 1..Len(trg_lines) : \A i \in 1..Len(trg_lines[d]) :
              SameFraction(trg_weights[d][i],
                           <<Len(AllLines), DocFrequency(AllLines, trg_lines[d][i])>>)

(* The weight w is the number num / den *)
IsQuotient(w, num, den) == den /= 0 /\ w[1] * den = num * w[2]

(* Every sentence of the document is unique and all have the same non-zero  *)
(* length                                                                  *)
UniqueEqualLength(doc) ==
    /\ Len(doc) >= 1
    /\ \A i, j \in 1..Len(doc) : i /= j => doc[i] /= doc[j]
    /\ \A i \in 1..Len(doc) : cnt(doc[i]) = cnt(doc[1]) /\ cnt(doc[i]) /= 0

(* The sum of the lengths of all the lines, that is the sum over distinct   *)
(* sentences of occurrence_count x sentence_length                          *)
RECURSIVE TotalLength(_)
TotalLength(doc) == IF doc = <<>> THEN 0 ELSE cnt(Head(doc)) + TotalLength(Tail(doc))

RECURSIVE SumOfNumerators(_)
SumOfNumerators(ws) == IF ws = <<>> THEN 0 ELSE Head(ws)[1] + SumOfNumerators(Tail(ws))

SlLoaded == weights_strategy = 1 /\ pc = "loaded"

(* C13 as stated: every line of every document gets the weight              *)
(* (occurrence_count x sentence_length) / sum over distinct sentences of    *)
(* (occurrence_count x sentence_length).                                    *)
C13_WeightIsShare ==
    SlLoaded =>
        \A i \in 1..Len(src_lines[1]) :
            IsQuotient(src_weights[1][i],
                       Counts(src_lines[1], src_lines[1][i]) * cnt(src_lines[1][i]),
                       TotalLength(src_lines[1]))

(* C13: when the sum over distinct sentences of occurrence_count x          *)
(* sentence_length is not zero, every line gets the weight                  *)
(* (occurrence_count x sentence_length) / that sum; when it is zero (every  *)
(* line empty) every line gets 1.0.  For a document of unique sentences of  *)
(* one non-zero length every weight is 1 / sentence_count and they sum to 1.*)
C13_WeightIsShareOrOne ==
    SlLoaded =>
        LET doc == src_lines[1]
            ws == src_weights[1]
        IN  /\ Len(ws) = Len(doc)
            /\ TotalLength(doc) /= 0 =>
                  \A i \in 1..Len(doc) :
                      IsQuotient(ws[i], Counts(doc, doc[i]) * cnt(doc[i]), TotalLength(doc))
            /\ TotalLength(doc) = 0 => \A i \in 1..Len(doc) : ws[i] = <<1, 1>>
            /\ UniqueEqualLength(doc) =>
                  /\ \A i \in 1..Len(doc) : IsQuotient(ws[i], 1, Len(doc))
                  /\ \A i \in 1..Len(doc) : ws[i][2] = ws[1][2]
                  /\ SumOfNumerators(ws) = ws[1][2]

(* A document of three different sentences of one length has been weighted, *)
(* each line by a third                                                    *)
C13_Witness ==
    /\ SlLoaded
    /\ UniqueEqualLength(src_lines[1]) /\ Len(src_lines[1]) = 3
    /\ \A i \in 1..3 : IsQuotient(src_weights[1][i], 1, 3)

----------------------------------------------------------------------------
(* Claims about the windowed score *)

RowCount == Len(similarities)

RowWindow(i) == Window(similarities[i + 1], i, closeSentence(RowCount, Len(similarities[i + 1])))

(* The rows that are not skipped: the source line is not blank, the window  *)
(* is not empty and the best-matching target line is not blank              *)
CountedRows ==
    {i \in 0..(RowCount - 1) :
        /\ ~source_blank[i + 1]
        /\ Len(RowWindow(i)) > 0
        /\ ~target_blank[ArgMax(similarities[i + 1]) + 1]}

RECURSIVE SumOfMaxima(_)
SumOfMaxima(rows) ==
    IF rows = {} THEN 0
    ELSE LET i == CHOOSE x \in rows : TRUE
         IN  SeqMax(RowWindow(i)) + SumOfMaxima(rows \ {i})

(* C14: the score of a document pair is the mean of the windowed maxima of  *)
(* all the rows of the similarity matrix that are not skipped, each counted *)
(* once, and a pair with such a row gets a score.                           *)
C14_MeanOverRows ==
    /\ pc = "scored" => SameFraction(avg_sum_max, <<SumOfMaxima(CountedRows), Cardinality(CountedRows)>>)
    /\ pc = "error" /\ strategy = "mix-faiss-lev-full" => CountedRows = {}

----------------------------------------------------------------------------
(* Claims about max_split3_embedding *)

Dim == Len(embedding[1])

(* The elementwise maximum of two vectors *)
Larger(a, b) == [d \in 1..Len(a) |-> IF a[d] >= b[d] THEN a[d] ELSE b[d]]

(* C15: the merged vector of a sequence of n >= 1 vectors has length        *)
(* 3 x dim; for n = 1 its three thirds are the single vector; for n = 2 it  *)
(* is vector 0, vector 1 and their elementwise maximum.                     *)
C15_MaxSplit3 ==
    pc = "merged" =>
        /\ Len(merged) = 3 * Dim
        /\ Len(embedding) = 1 =>
              \A t \in 0..2 : SubSeq(merged, t * Dim + 1, (t + 1) * Dim) = embedding[1]
        /\ Len(embedding) = 2 =>
              /\ SubSeq(merged, 1, Dim) = embedding[1]
              /\ SubSeq(merged, Dim + 1, 2 * Dim) = embedding[2]
              /\ SubSeq(merged, 2 * Dim + 1, 3 * Dim) = Larger(embedding[1], embedding[2])

(* Two vectors have been merged, neither of them their elementwise maximum *)
C15_Witness ==
    /\ pc = "merged" /\ Len(embedding) = 2
    /\ Larger(embedding[1], embedding[2]) \notin {embedding[1], embedding[2]}
    /\ Len(merged) = 6

----------------------------------------------------------------------------
(* Claims about cosine_similarity *)

(* C16: the score of every pair of vectors is in [0, 1]; it is 0 for a      *)
(* vector and itself, 1 when the cosine of the two vectors is negative,     *)
(* and the same for (a, b) and (b, a).                                      *)
C16_Score ==
    pc = "cosine_returned" =>
        /\ cosine \in 0..One
        /\ v1 = v2 => cosine = 0
        /\ Dot(v1, v2) < 0 => cosine = One
        /\ cosine = cosine_similarity(v2, v1)

----------------------------------------------------------------------------
(* Claims about process_input_file *)

(* The Python indexes of the accepted records: lines of three fields with   *)
(* side src or trg, within max_noentries                                    *)
Accepted ==
    {i \in 0..(Len(data_src) - 1) :
        /\ Len(data_src[i + 1]) = 3
        /\ data_src[i + 1][3] \in {"src", "trg"}
        /\ (max_noentries = None \/ max_noentries = 0 \/ i < max_noentries)}

EveryPath == \A i \in Accepted : data_src[i + 1][1] /= "-"

EveryUrl == \A i \in Accepted : data_src[i + 1][2] /= "-"

InputReturned == strategy = "input" /\ pc \in {"input_done", "error"}

(* The entries <<i, field f of record i>> of the accepted records of a      *)
(* side, from record i on, in declaration order                             *)
RECURSIVE Declared(_, _, _)
Declared(side, f, i) ==
    IF i >= Len(data_src) THEN <<>>
    ELSE IF i \in Accepted /\ data_src[i + 1][3] = side
         THEN <<<<i, data_src[i + 1][f]>>>> \o Declared(side, f, i + 1)
         ELSE Declared(side, f, i + 1)

(* The lists of a side are as long as its accepted records, and each is in  *)
(* declaration order or, when it is not kept, all None                      *)
ListsInOrder(side, docs, urls) ==
    /\ Len(docs) = Len(urls)
    /\ Len(docs) = Len(Declared(side, 1, 0))
    /\ docs = IF EveryPath THEN Declared(side, 1, 0) ELSE Nones(urls)
    /\ urls = IF EveryUrl THEN Declared(side, 2, 0) ELSE Nones(docs)

PathMissing ==
    /\ ~paths_to_docs_are_base64_values
    /\ \E i \in Accepted :
         /\ data_src[i + 1][1] = "nofile"
         /\ \A j \in Accepted : j < i => data_src[j + 1][1] /= "-"

----------------------------------------------------------------------------
(* Claims about the batches of the worker pool *)

PoolPath == strategy \in {"lev", "just-merge"} /\ noprocesses > 0

CrossProduct == (0..(Len(src_docs) - 1)) \X (0..(Len(trg_docs) - 1))

(* The positions <<batch, task>> of the tasks dispatched so far *)
Tasks == UNION {{<<b, i>> : i \in 1..Len(dispatched[b])} : b \in 1..Len(dispatched)}

TaskPair(x) == <<dispatched[x[1]][x[2]][1], dispatched[x[1]][x[2]][2]>>

AllConsidered ==
    \A q \in CrossProduct : Filtered(q[1], q[2]) \/ \E x \in Tasks : TaskPair(x) = q

EarlierTasks == {x \in Tasks : x[1] < Len(dispatched)}

Folded(x) ==
    LET q == TaskPair(x)
        score == sim[q[1] + 1][q[2] + 1]
    IN  AboveThreshold(score) =>
            \E i \in 1..Len(results) :
                results[i] = <<PyGet(src_docs, q[1]), PyGet(trg_docs, q[2]), score>>

(* C20: the tasks in flight all belong to the last batch dispatched, and a  *)
(* batch is dispatched only when no task is in flight and the results of    *)
(* all earlier batches have been folded into the result list.               *)
C20_NoOverlap ==
    /\ [](PoolPath =>
            \A f \in inflight :
                /\ Len(dispatched) >= 1
                /\ \E i \in 1..Len(dispatched[Len(dispatched)]) :
                       dispatched[Len(dispatched)][i][3] = f)
    /\ [][dispatched' /= dispatched =>
            /\ inflight = {}
            /\ \A x \in Tasks : Folded(x)]_vars

(* A second batch is in flight, the first one folded *)
C20_Witness ==
    /\ PoolPath /\ pc = "running"
    /\ Len(dispatched) = 2
    /\ inflight /= {}
    /\ Len(results) >= 1

----------------------------------------------------------------------------
(* Claims about the best candidate recorded by docalign *)

BestRecorded == BestMatch /\ pc \in {"union", "print", "done"}

(* The positions in the pool of the candidates of document d on side k     *)
(* (1: source, 2: target)                                                  *)
CandidatesOf(k, d) == {i \in 1..Len(results) : results[i][k] = d}

(* The first position, in pool order, of a candidate of d with the maximum *)
(* score among the candidates of d                                         *)
FirstBest(k, d) ==
    CHOOSE i \in CandidatesOf(k, d) :
        /\ \A j \in CandidatesOf(k, d) : results[j][3] <= results[i][3]
        /\ \A j \in CandidatesOf(k, d) : results[j][3] = results[i][3] => i <= j

(* C21: after docalign in best-match mode, the recorded best target of     *)
(* each source is the first candidate in pool order among those with the   *)
(* maximum score for that source, and symmetrically the recorded best      *)
(* source of each target.                                                  *)
C21_FirstBest ==
    BestRecorded =>
        /\ DOMAIN aligned.src = {results[i][1] : i \in 1..Len(results)}
        /\ DOMAIN aligned.trg = {results[i][2] : i \in 1..Len(results)}
        /\ \A s \in DOMAIN aligned.src :
              aligned.src[s] = <<results[FirstBest(1, s)][2], results[FirstBest(1, s)][3]>>
        /\ \A t \in DOMAIN aligned.trg :
              aligned.trg[t] = <<results[FirstBest(2, t)][1], results[FirstBest(2, t)][3]>>

(* One source whose best score is reached by two candidates, and one       *)
(* source whose first candidate was replaced by a strictly greater one     *)
C21_Witness ==
    /\ BestRecorded
    /\ \E s \in DOMAIN aligned.src :
         \E i, j \in CandidatesOf(1, s) :
             i /= j /\ results[i][3] = results[j][3] /\ results[i][3] = aligned.src[s][2]
    /\ \E s \in DOMAIN aligned.src :
         \E i \in CandidatesOf(1, s) : i < FirstBest(1, s)
    /\ \E t \in DOMAIN aligned.trg :
         \E i, j \in CandidatesOf(2, t) :
             i /= j /\ results[i][3] = results[j][3] /\ results[i][3] = aligned.trg[t][2]

----------------------------------------------------------------------------
(* Claims about the greedy walk of get_faiss *)

(* The pair a candidate of the pool is emitted as, in the orientation of    *)
(* the output: <<source document, target document, score>>                 *)
EmittedAs(r) ==
    IF faiss_reverse_direction
    THEN <<PyGet(faiss_trg_docs, r[2]), PyGet(faiss_src_docs, r[1]), r[3]>>
    ELSE <<PyGet(faiss_src_docs, r[1]), PyGet(faiss_trg_docs, r[2]), r[3]>>

Emitted(r) == \E i \in 1..Len(results) : results[i] = EmittedAs(r)

(* A document of the candidate is in an emitted pair of at least its score *)
Blocked(r) ==
    \E i \in 1..Len(results) :
        /\ results[i][3] >= r[3]
        /\ results[i][1] = EmittedAs(r)[1] \/ results[i][2] = EmittedAs(r)[2]

(* C22: get_faiss emits pairs in non-increasing score order, and every      *)
(* candidate of the pool with a score at or above the threshold that is    *)
(* not emitted has its source document or its target document in an        *)
(* emitted pair whose score is at least the candidate's.                   *)
C22_Greedy ==
    FaissReturned =>
        /\ \A i, j \in 1..Len(results) : i < j => results[i][3] >= results[j][3]
        /\ \A p \in 1..Len(pool) :
              AboveThreshold(pool[p][3]) /\ ~Emitted(pool[p]) => Blocked(pool[p])

(* Two pairs of different scores are emitted, and a candidate at or above   *)
(* the threshold with a score between theirs is not emitted                *)
C22_Witness ==
    /\ FaissReturned
    /\ Len(results) >= 2
    /\ results[1][3] > results[Len(results)][3]
    /\ \E p \in 1..Len(pool) :
         /\ AboveThreshold(pool[p][3]) /\ ~Emitted(pool[p])
         /\ pool[p][3] > results[Len(results)][3]

----------------------------------------------------------------------------
(* Claims about the window of the windowed score *)

Scored == strategy \in {"mix-faiss-lev-full", "avg_max"} /\ pc = "scored"

ColumnCount(i) == Len(similarities[i + 1])

(* The columns the code's slice of row i holds *)
WindowColumns(i) ==
    LET b == Bounds(ColumnCount(i), i, HalfWidth(RowCount, ColumnCount(i)))
    IN  {j \in 0..(ColumnCount(i) - 1) :
            SliceBound(b[1], ColumnCount(i)) <= j /\ j < SliceBound(b[2], ColumnCount(i))}

(* The columns j with max(0, i - w) <= j <= min(last column, i + w) *)
ClippedColumns(i) ==
    LET w == HalfWidth(RowCount, ColumnCount(i))
    IN  {j \in 0..(ColumnCount(i) - 1) : Max(0, i - w) <= j /\ j <= Min(ColumnCount(i) - 1, i + w)}

(* C23: the windowed maximum of every row i that is taken is the maximum    *)
(* over exactly the columns j with max(0, i - w) <= j <= min(last column,   *)
(* i + w), w the difference of the two lengths clamped to 50..300 (50..150  *)
(* in get_max_avg).                                                         *)
C23_WindowColumns ==
    Scored =>
        \A k \in 1..Len(maxtmp) :
            LET i == maxtmp[k][1]
            IN  /\ WindowColumns(i) = ClippedColumns(i)
                /\ \E j \in ClippedColumns(i) : maxtmp[k][2] = similarities[i + 1][j + 1]
                /\ \A j \in ClippedColumns(i) : maxtmp[k][2] >= similarities[i + 1][j + 1]

----------------------------------------------------------------------------
(* Claims about apply_mask *)

(* The dimensions whose mask value is above machine epsilon, in order *)
RECURSIVE KeptDimensions(_)
KeptDimensions(d) ==
    IF d > Len(mask) THEN <<>>
    ELSE IF mask[d] > Epsilon THEN <<d>> \o KeptDimensions(d + 1)
    ELSE KeptDimensions(d + 1)

(* The vector holds, for each kept dimension, the original component times  *)
(* the mask value of the dimension                                          *)
MaskedAndPruned(vector, original) ==
    LET kept == KeptDimensions(1)
    IN  /\ Len(vector) = Len(kept)
        /\ \A k \in 1..Len(kept) : vector[k] = original[kept[k]] * mask[kept[k]]

(* C24: apply_mask with zero-pruning keeps, in every embedding with one or  *)
(* two axes, exactly the dimensions whose mask value is above machine       *)
(* epsilon, each kept component being the original one multiplied by the    *)
(* mask value of its dimension.                                             *)
C24_ZeroPruning ==
    pc = "masked" /\ check_zeros_mask =>
        /\ Len(embeddings) = Len(loaded_embeddings)
        /\ \A idx \in 1..Len(embeddings) :
              /\ embeddings[idx].ndim = loaded_embeddings[idx].ndim
              /\ IF embeddings[idx].ndim = 1
                 THEN MaskedAndPruned(embeddings[idx].values, loaded_embeddings[idx].values)
                 ELSE /\ Len(embeddings[idx].values) = Len(loaded_embeddings[idx].values)
                      /\ \A r \in 1..Len(embeddings[idx].values) :
                            MaskedAndPruned(embeddings[idx].values[r],
                                            loaded_embeddings[idx].values[r])

----------------------------------------------------------------------------
(* Claims about the segments of max_split3_embedding *)

(* The elementwise maximum of the vectors of the Python indexes lo..hi-1 *)
SegmentMax(lo, hi) ==
    [d \in 1..Dim |->
        CHOOSE x \in {embedding[i + 1][d] : i \in lo..(hi - 1)} :
            \A i \in lo..(hi - 1) : embedding[i + 1][d] <= x]

(* merged is made of the maxima of the segments 0..a-1, a..b-1 and b..n-1 *)
SplitAt(a, b) ==
    /\ 0 < a /\ a < b /\ b < Len(embedding)
    /\ merged = SegmentMax(0, a) \o SegmentMax(a, b) \o SegmentMax(b, Len(embedding))

Within(x, y, k) == x - y <= k /\ y - x <= k

(* C25 as stated: for n >= 3 the three segments are contiguous, non-empty,  *)
(* disjoint and cover 0..n-1, the first of length floor(n/3), and any two   *)
(* segment lengths differ by at most one.                                   *)
C25_BalancedSegments ==
    pc = "merged" /\ Len(embedding) >= 3 =>
        \E a, b \in 1..Len(embedding) :
            /\ SplitAt(a, b)
            /\ a = Len(embedding) \div 3
            /\ Within(a, b - a, 1) /\ Within(a, Len(embedding) - b, 1)
            /\ Within(b - a, Len(embedding) - b, 1)

(* C25: for n >= 3 the three segments are contiguous, non-empty, disjoint   *)
(* and cover 0..n-1; the first and the last have length floor(n/3) and the  *)
(* middle one the n - 2 floor(n/3) vectors left, so that two segment        *)
(* lengths differ by at most two.                                           *)
C25_Segments ==
    pc = "merged" /\ Len(embedding) >= 3 =>
        LET n == Len(embedding)
            a == n \div 3
            b == n - (n \div 3)
        IN  /\ SplitAt(a, b)
            /\ b - a = n - 2 * (n \div 3)
            /\ Within(a, b - a, 2) /\ Within(b - a, n - b, 2) /\ a = n - b

(* Five vectors have been merged, the three maxima all different *)
C25_Witness ==
    /\ pc = "merged" /\ Len(embedding) = 5
    /\ SegmentMax(0, 1) /= SegmentMax(1, 4)
    /\ SegmentMax(1, 4) /= SegmentMax(4, 5)
    /\ SegmentMax(0, 1) /= SegmentMax(4, 5)
    /\ SegmentMax(1, 3) /= SegmentMax(1, 4)

----------------------------------------------------------------------------
(* Claims about weight_embeddings *)

WeightReturned == strategy = "preprocess" /\ pc \in {"weighted", "error"}

(* One weight vector is computed for each document of paths, whatever the   *)
(* strategy                                                                 *)
WeightVectors == Len(get_weights(paths_lines))

(* C26: when the number of weight vectors differs from the number of        *)
(* embedding sequences, weight_embeddings modifies no embedding and         *)
(* returns the embeddings normally; the mismatch never raises an error.     *)
C26_FailOpen ==
    WeightReturned /\ weights_strategy \in {1, 2, 3} /\ WeightVectors /= Len(loaded_embeddings) =>
        pc = "weighted" /\ embeddings = loaded_embeddings

----------------------------------------------------------------------------
(* Claims about the sentence alignments kept by the windowed score *)

Kept == {goodSentenceindex[k] : k \in 1..Len(goodSentenceindex)}

(* The rows of similarities are the sentences of the target document when   *)
(* isBackwardFlag is set, of the source document otherwise: the row and the *)
(* column of a triple <<source sentence, target sentence, score>>           *)
RowOf(g) == IF isBackwardFlag THEN g[2] ELSE g[1]

ColumnOf(g) == IF isBackwardFlag THEN g[1] ELSE g[2]

(* C27: every triple kept is <<source sentence index, target sentence       *)
(* index, score>> whichever document gave the rows of the similarity        *)
(* matrix: its row is a row whose maximum was taken, its column the best    *)
(* column of that row and its score the maximum taken for the row; and      *)
(* only triples with a score at or above the sentence similarity threshold  *)
(* are kept, none when sentences are not saved.                             *)
C27_Orientation ==
    Scored =>
        /\ ~save_sentences => goodSentenceindex = <<>>
        /\ \A g \in Kept :
              /\ g[3] >= sentences_similarity_threshold
              /\ RowOf(g) \in 0..(RowCount - 1)
              /\ ColumnOf(g) \in 0..(ColumnCount(RowOf(g)) - 1)
              /\ ColumnOf(g) = ArgMax(similarities[RowOf(g) + 1])
              /\ \E k \in 1..Len(maxtmp) : maxtmp[k] = <<RowOf(g), g[3]>>

(* The target document gave the three rows of a matrix of two columns; of   *)
(* the two rows counted one is kept, its row and column different, the      *)
(* other is below the threshold                                             *)
C27_Witness ==
    /\ Scored /\ save_sentences /\ isBackwardFlag
    /\ RowCount = 3 /\ ColumnCount(0) = 2
    /\ avg_sum_max[2] = 2
    /\ Len(goodSentenceindex) = 1
    /\ goodSentenceindex[1][1] /= goodSentenceindex[1][2]

----------------------------------------------------------------------------
(* Claims about the two paths of get_lev and get_distance *)

(* The scoring function itself raised on a pair, which it does on either    *)
(* path; worker_distance raises before it scores anything                   *)
ScoringRaised == strategy = "lev" /\ TaskFailed

(* C28: on the same documents, threshold and heuristics, the worker-pool    *)
(* path returns the list the path without multiprocessing returns, in the   *)
(* same order, for get_lev and for get_distance.                            *)
C28_SamePaths ==
    PoolPath /\ pc \in {"returned", "error"} /\ ~ScoringRaised =>
        pc = "returned" /\ results = SequentialScores(0, 0, <<>>)

----------------------------------------------------------------------------
(* Claims about the division of the windowed score *)

WindowEnded == strategy \in {"mix-faiss-lev-full", "avg_max"} /\ pc /= "window"

(* C29: every pair of documents that are not empty gets a score: when the   *)
(* mean is computed the number of rows counted is at least 1, also for a    *)
(* pair of one-sentence documents and for pairs with blank rows.            *)
C29_DefinedScore ==
    WindowEnded /\ RowCount >= 1 /\ ColumnCount(0) >= 1 =>
        pc = "scored" /\ avg_sum_max[2] >= 1

----------------------------------------------------------------------------
(* Claims about the consistency of the sentence alignments *)

(* C30: every triple kept is self-consistent: its column lies inside the    *)
(* window of its row and its score is the entry of the similarity matrix    *)
(* at its row and column.                                                   *)
C30_SelfConsistent ==
    Scored =>
        \A g \in Kept :
            /\ ColumnOf(g) \in WindowColumns(RowOf(g))
            /\ g[3] = similarities[RowOf(g) + 1][ColumnOf(g) + 1]

====
